---- MODULE Spec2Model ----
(***************************************************************************)
(* Model of the doc2md-s3 conversion pipeline (src/doc2md-s3).             *)
(*                                                                         *)
(* Python strings are sequences of one-character strings, so that          *)
(* endswith, replace, lower, split and the regular expressions of the      *)
(* Markdown optimizer are computed rather than assumed.  A dict is a       *)
(* function whose DOMAIN is the set of keys present.                       *)
(*                                                                         *)
(* Time is counted in ticks of one third of 1/100 s, so that no measured   *)
(* time lies exactly half-way between two values of the "%.2f" format.     *)
(*                                                                         *)
(* The print() log lines of the source change no state and are left out.   *)
(* Constructing the collaborators (S3Handler(), DoclingProcessor(), ...)   *)
(* and unlinking the run's own temporary file are taken to succeed; the    *)
(* failures modelled are the ones the collaborators report through their   *)
(* results: download_file and upload_content returning False,              *)
(* process_document and optimize_markdown returning success=False, and an  *)
(* exception inside the structural scan.                                   *)
(***************************************************************************)
EXTENDS Integers, Sequences, FiniteSets, TLC

VARIABLES
    run,      \* run[r]: the local variables of invocation r of lambda_handler
    files,    \* the temporary files that exist on the local file system
    s3,       \* the objects written to object storage: <<bucket, key>> -> body
    trace,    \* trace[r]: the collaborator operations invocation r has called
    measured, \* measured[r][stage]: the elapsed times invocation r measured
    opt,      \* one MarkdownOptimizer object and the optimize_markdown call on it
    scan,     \* one DoclingProcessor.process_document call
    analyzer  \* one call of a method of MetadataAnalyzer

vars == <<run, files, s3, trace, measured, opt, scan, analyzer>>

-----------------------------------------------------------------------------
(* Python str operations                                                   *)

\* Python evaluates an expression once, when it is assigned or passed to a
\* call: F of the value of e
Bind(F(_), e) == CHOOSE result \in {F(value) : value \in {e}} : TRUE

Max(a, b) == IF a >= b THEN a ELSE b
Min(a, b) == IF a <= b THEN a ELSE b

\* s[i:] and s[:i] with 1-based i
From(s, i) == SubSeq(s, i, Len(s))
Upto(s, i) == SubSeq(s, 1, i)

\* whether sub occurs in s at position i
OccursAt(s, sub, i) ==
    /\ i >= 1
    /\ i + Len(sub) - 1 <= Len(s)
    /\ \A k \in 1..Len(sub) : s[i + k - 1] = sub[k]

StartsWith(s, prefix) == OccursAt(s, prefix, 1)
EndsWith(s, suffix) == OccursAt(s, suffix, Len(s) - Len(suffix) + 1)
Contains(s, sub) == \E i \in 1..(Len(s) + 1) : OccursAt(s, sub, i)

UpperCase == <<"A", "B", "C", "D", "E", "F", "G", "H", "I", "J", "K", "L", "M",
               "N", "O", "P", "Q", "R", "S", "T", "U", "V", "W", "X", "Y", "Z">>
LowerCase == <<"a", "b", "c", "d", "e", "f", "g", "h", "i", "j", "k", "l", "m",
               "n", "o", "p", "q", "r", "s", "t", "u", "v", "w", "x", "y", "z">>

LowerChar(c) ==
    IF \E k \in 1..Len(UpperCase) : UpperCase[k] = c
    THEN LowerCase[CHOOSE k \in 1..Len(UpperCase) : UpperCase[k] = c]
    ELSE c

\* str.lower()
Lower(s) == [i \in 1..Len(s) |-> LowerChar(s[i])]

RECURSIVE Replace(_, _, _)
\* str.replace(old, new): every non-overlapping occurrence, left to right
Replace(s, old, new) ==
    LET at == {j \in 1..Len(s) : OccursAt(s, old, j)}
        first == CHOOSE j \in at : \A k \in at : j <= k
    IN  IF old = <<>> \/ at = {} THEN s
        ELSE Upto(s, first - 1) \o new \o Replace(From(s, first + Len(old)), old, new)

RECURSIVE LastIndexOf(_, _, _)
LastIndexOf(s, c, i) ==
    IF i = 0 THEN 0 ELSE IF s[i] = c THEN i ELSE LastIndexOf(s, c, i - 1)

\* os.path.basename(path): what follows the last "/"
Basename(path) == From(path, LastIndexOf(path, "/", Len(path)) + 1)

Whitespace == {" ", "\t", "\n", "\r", "\f"}

RECURSIVE LStrip(_, _)
LStrip(s, chars) ==
    IF s # <<>> /\ Head(s) \in chars THEN LStrip(Tail(s), chars) ELSE s

RECURSIVE RStrip(_, _)
RStrip(s, chars) ==
    IF s # <<>> /\ s[Len(s)] \in chars THEN RStrip(Upto(s, Len(s) - 1), chars) ELSE s

\* str.strip()
Strip(s) == LStrip(RStrip(s, Whitespace), Whitespace)

RECURSIVE Split(_, _)
\* str.split(sep) for a one-character separator: the list of pieces
Split(s, sep) ==
    IF \E i \in 1..Len(s) : s[i] = sep
    THEN LET i == CHOOSE j \in 1..Len(s) : s[j] = sep /\ \A k \in 1..(j - 1) : s[k] # sep
         IN  <<Upto(s, i - 1)>> \o Split(From(s, i + 1), sep)
    ELSE <<s>>

RECURSIVE Join(_, _)
\* sep.join(pieces)
Join(pieces, sep) ==
    IF pieces = <<>> THEN <<>>
    ELSE IF Len(pieces) = 1 THEN pieces[1]
    ELSE pieces[1] \o sep \o Join(Tail(pieces), sep)

RECURSIVE WordCount(_, _)
\* len(text.split()): the number of maximal runs of non-whitespace characters
WordCount(s, inWord) ==
    IF s = <<>> THEN 0
    ELSE IF Head(s) \in Whitespace THEN WordCount(Tail(s), FALSE)
    ELSE (IF inWord THEN 0 ELSE 1) + WordCount(Tail(s), TRUE)


-----------------------------------------------------------------------------
(* s3_handler.py: S3Handler.validate_s3_path                               *)

MinBucketLen == 3
MaxBucketLen == 63
MaxKeyLen == 1024

\* validate_s3_path without the test of the key format
validate_s3_path_lengths(bucket, key) ==
    IF bucket = <<>> \/ Len(bucket) < MinBucketLen \/ Len(bucket) > MaxBucketLen
    THEN [valid |-> FALSE, error |-> "Invalid bucket name length"]
    ELSE IF key = <<>> \/ Len(key) > MaxKeyLen
    THEN [valid |-> FALSE, error |-> "Invalid key length"]
    ELSE [valid |-> TRUE, error |-> ""]

\* the (is_valid, error_message) tuple validate_s3_path returns
validate_s3_path(bucket, key) ==
    IF bucket = <<>> \/ Len(bucket) < MinBucketLen \/ Len(bucket) > MaxBucketLen
    THEN [valid |-> FALSE, error |-> "Invalid bucket name length"]
    ELSE IF key = <<>> \/ Len(key) > MaxKeyLen
    THEN [valid |-> FALSE, error |-> "Invalid key length"]
    ELSE IF Contains(key, <<"/", "/">>) \/ StartsWith(key, <<"/">>) \/ EndsWith(key, <<"/">>)
    THEN [valid |-> FALSE, error |-> "Invalid key format"]
    ELSE [valid |-> TRUE, error |-> ""]

-----------------------------------------------------------------------------
(* lambda_function.py: validate_event                                      *)

required_fields == <<"source_bucket", "source_key", "output_bucket", "output_key">>

DotPdf == <<".", "p", "d", "f">>
DotMd == <<".", "m", "d">>
MetadataSuffix == <<"_", "m", "e", "t", "a", "d", "a", "t", "a", ".", "j", "s", "o", "n">>

\* validate_extensions without the test of the source key
validate_output_extension(event) ==
    IF ~EndsWith(Lower(event.output_key), DotMd)
    THEN [valid |-> FALSE, error |-> "Output file must have .md extension", detail |-> ""]
    ELSE [valid |-> TRUE, error |-> "", detail |-> ""]

\* lines 283-298: the tests of the file extensions
validate_extensions(event) ==
    IF ~EndsWith(Lower(event.source_key), DotPdf)
    THEN [valid |-> FALSE, error |-> "Source file must be a PDF", detail |-> ""]
    ELSE IF ~EndsWith(Lower(event.output_key), DotMd)
    THEN [valid |-> FALSE, error |-> "Output file must have .md extension", detail |-> ""]
    ELSE [valid |-> TRUE, error |-> "", detail |-> ""]

\* the {"valid", "error"} dict validate_event returns; the error is split in
\* its fixed text and the detail appended to it
validate_event(event) ==
    IF \E k \in 1..Len(required_fields) : required_fields[k] \notin DOMAIN event
    THEN LET k == CHOOSE j \in 1..Len(required_fields) :
                      /\ required_fields[j] \notin DOMAIN event
                      /\ \A i \in 1..(j - 1) : required_fields[i] \in DOMAIN event
         IN  [valid |-> FALSE, error |-> "Missing required field: ", detail |-> required_fields[k]]
    ELSE LET src == validate_s3_path(event.source_bucket, event.source_key)
             out == validate_s3_path(event.output_bucket, event.output_key)
         IN  IF ~src.valid
             THEN [valid |-> FALSE, error |-> "Invalid source S3 path: ", detail |-> src.error]
             ELSE IF ~out.valid
             THEN [valid |-> FALSE, error |-> "Invalid output S3 path: ", detail |-> out.error]
             ELSE validate_extensions(event)

-----------------------------------------------------------------------------
(* docling_processor.py: the structured document and its scan              *)
(*                                                                         *)
(* An object is the function from the attributes it has to their values;   *)
(* an attribute value is None or Str(chars).  A document may have "pages"  *)
(* (a sequence of pages), a page may have "elements" (a sequence of        *)
(* elements), an element may have "label" and "text".                      *)

None == <<"None">>
Str(chars) == <<"str", chars>>
IsStr(v) == v[1] = "str"
hasattr(obj, name) == name \in DOMAIN obj

ZeroDocInfo ==
    [page_count |-> 0, table_count |-> 0, heading_count |-> 0, paragraph_count |-> 0,
     list_count |-> 0, formula_count |-> 0, total_characters |-> 0, total_words |-> 0]

Counters == DOMAIN ZeroDocInfo

\* getattr(element, 'label', '').lower() raises when the label is no string
LabelRaises(element) == hasattr(element, "label") /\ ~IsStr(element.label)

element_type(element) ==
    IF hasattr(element, "label") THEN Lower(element.label[2]) ELSE <<>>

W_table == <<"t", "a", "b", "l", "e">>
W_heading == <<"h", "e", "a", "d", "i", "n", "g">>
W_title == <<"t", "i", "t", "l", "e">>
W_paragraph == <<"p", "a", "r", "a", "g", "r", "a", "p", "h">>
W_text == <<"t", "e", "x", "t">>
W_list == <<"l", "i", "s", "t">>
W_formula == <<"f", "o", "r", "m", "u", "l", "a">>
W_equation == <<"e", "q", "u", "a", "t", "i", "o", "n">>

\* the tests of lines 200-209 with the test of the headings put first
CategoryHeadingFirst(t) ==
    IF Contains(t, W_heading) \/ Contains(t, W_title) THEN "heading_count"
    ELSE IF Contains(t, W_table) THEN "table_count"
    ELSE IF Contains(t, W_paragraph) \/ Contains(t, W_text) THEN "paragraph_count"
    ELSE IF Contains(t, W_list) THEN "list_count"
    ELSE IF Contains(t, W_formula) \/ Contains(t, W_equation) THEN "formula_count"
    ELSE ""

\* lines 200-209: the counter an element's label selects, "" when none
Category(t) ==
    IF Contains(t, W_table) THEN "table_count"
    ELSE IF Contains(t, W_heading) \/ Contains(t, W_title) THEN "heading_count"
    ELSE IF Contains(t, W_paragraph) \/ Contains(t, W_text) THEN "paragraph_count"
    ELSE IF Contains(t, W_list) THEN "list_count"
    ELSE IF Contains(t, W_formula) \/ Contains(t, W_equation) THEN "formula_count"
    ELSE ""

\* hasattr(element, 'text') and element.text
HasText(element) ==
    hasattr(element, "text") /\ IsStr(element.text) /\ element.text[2] # <<>>

\* lines 198-215: the body of the loop over a page's elements
CountElement(info, element) ==
    LET c == Category(element_type(element))
        counted == IF c = "" THEN info ELSE [info EXCEPT ![c] = @ + 1]
    IN  IF HasText(element)
        THEN [counted EXCEPT !.total_characters = @ + Len(element.text[2]),
                             !.total_words = @ + WordCount(element.text[2], FALSE)]
        ELSE counted

\* the elements the loops of lines 195-197 visit, in order
RECURSIVE VisitedElements(_)
VisitedElements(pages) ==
    IF pages = <<>> THEN <<>>
    ELSE (IF hasattr(Head(pages), "elements") THEN Head(pages).elements ELSE <<>>)
         \o VisitedElements(Tail(pages))

RECURSIVE ScanElements(_, _)
\* the counters after the loop, or <<>> when an element made the loop raise
ScanElements(elements, info) ==
    IF elements = <<>> THEN <<info>>
    ELSE IF LabelRaises(Head(elements)) THEN <<>>
    ELSE ScanElements(Tail(elements), CountElement(info, Head(elements)))

LabelError == "'NoneType' object has no attribute 'lower'"
DocumentError == "object has no attribute 'document'"

\* a doc_info of zeros that does not tell of the error
ZeroedDocInfo(message) == [k \in Counters |-> <<"int", 0>>]

\* lines 219-231: the dict returned by the except clause
ErrorDocInfo(message) ==
    [k \in Counters \cup {"extraction_error"} |->
        IF k = "extraction_error" THEN Str(message) ELSE <<"int", 0>>]

\* a doc_info dict keeps its values tagged, as it holds counters and a string
TagInts(info) == [k \in DOMAIN info |-> <<"int", info[k]>>]

\* lines 182-191: doc_info before the loops
StartDocInfo(doc) ==
    [ZeroDocInfo EXCEPT !.page_count = IF hasattr(doc, "pages") THEN Len(doc.pages) ELSE 0]

\* lines 194-197: the elements the loops will visit
ElementsToVisit(doc) == IF hasattr(doc, "pages") THEN VisitedElements(doc.pages) ELSE <<>>

\* DoclingProcessor._extract_document_info on the result of the converter
extract_document_info(result) ==
    IF ~hasattr(result, "document") THEN ErrorDocInfo(DocumentError)
    ELSE LET scanned == ScanElements(ElementsToVisit(result.document),
                                     StartDocInfo(result.document))
         IN  IF scanned = <<>> THEN ErrorDocInfo(LabelError) ELSE TagInts(scanned[1])

\* lines 248-256: page_info before the loop over the page's elements
ZeroPageInfo(page_number) ==
    [page_number |-> page_number, element_count |-> 0, table_count |-> 0,
     heading_count |-> 0, paragraph_count |-> 0, character_count |-> 0, word_count |-> 0]

\* the tests of lines 264-269 without the test for 'title'
PageCategoryNoTitle(t) ==
    IF Contains(t, W_table) THEN "table_count"
    ELSE IF Contains(t, W_heading) THEN "heading_count"
    ELSE IF Contains(t, W_paragraph) \/ Contains(t, W_text) THEN "paragraph_count"
    ELSE ""

\* lines 264-269: the counter of page_info an element's label selects
PageCategory(t) ==
    IF Contains(t, W_table) THEN "table_count"
    ELSE IF Contains(t, W_heading) \/ Contains(t, W_title) THEN "heading_count"
    ELSE IF Contains(t, W_paragraph) \/ Contains(t, W_text) THEN "paragraph_count"
    ELSE ""

\* lines 262-276: the body of the loop over a page's elements
CountPageElement(page_info, element) ==
    LET c == PageCategory(element_type(element))
        counted == IF c = "" THEN page_info ELSE [page_info EXCEPT ![c] = @ + 1]
    IN  IF HasText(element)
        THEN [counted EXCEPT !.character_count = @ + Len(element.text[2]),
                             !.word_count = @ + WordCount(element.text[2], FALSE)]
        ELSE counted

RECURSIVE ScanPageElements(_, _)
\* page_info after the loop of line 261, or <<>> when an element made it raise
ScanPageElements(elements, page_info) ==
    IF elements = <<>> THEN <<page_info>>
    ELSE IF LabelRaises(Head(elements)) THEN <<>>
    ELSE ScanPageElements(Tail(elements), CountPageElement(page_info, Head(elements)))

\* lines 248-276: the page_info of page i, or <<>> when an element raised
PageInfo(i, page) ==
    IF hasattr(page, "elements")
    THEN ScanPageElements(page.elements,
                          [ZeroPageInfo(i) EXCEPT !.element_count = Len(page.elements)])
    ELSE <<ZeroPageInfo(i)>>

RECURSIVE AnalyzePages(_, _, _)
\* lines 247-278: page_analysis after the loop over the pages from page i on,
\* or <<>> when an element raised
AnalyzePages(pages, i, page_analysis) ==
    IF i > Len(pages) THEN <<page_analysis>>
    ELSE LET page_info == PageInfo(i, pages[i])
         IN  IF page_info = <<>> THEN <<>>
             ELSE AnalyzePages(pages, i + 1, Append(page_analysis, page_info[1]))

\* DoclingProcessor.analyze_page_structure: the list of page_info dicts, and
\* the empty list when result.document or a label raised (lines 282-283)
analyze_page_structure(result) ==
    IF ~hasattr(result, "document") THEN <<>>
    ELSE IF ~hasattr(result.document, "pages") THEN <<>>
    ELSE LET analysed == AnalyzePages(result.document.pages, 1, <<>>)
         IN  IF analysed = <<>> THEN <<>> ELSE analysed[1]

\* str(getattr(element, 'text', ''))
TextContent(element) ==
    IF ~hasattr(element, "text") THEN <<>>
    ELSE IF IsStr(element.text) THEN element.text[2]
    ELSE <<"N", "o", "n", "e">>

\* lines 304-322: the table_info of element j of page i; no element of the
\* documents read here has table_data
TableInfo(i, j, element) ==
    [page_number |-> i, element_number |-> j, table_type |-> element_type(element),
     text_content |-> TextContent(element), row_count |-> 0, column_count |-> 0]

RECURSIVE PageTables(_, _, _, _)
\* lines 301-322: tables after the elements of page i from element j on, or
\* <<>> when a label raised
PageTables(i, elements, j, tables) ==
    IF j > Len(elements) THEN <<tables>>
    ELSE IF LabelRaises(elements[j]) THEN <<>>
    ELSE PageTables(i, elements, j + 1,
                    IF Contains(element_type(elements[j]), W_table)
                    THEN Append(tables, TableInfo(i, j, elements[j]))
                    ELSE tables)

RECURSIVE DocumentTables(_, _, _)
\* lines 299-322: tables after the pages from page i on
DocumentTables(pages, i, tables) ==
    IF i > Len(pages) THEN <<tables>>
    ELSE LET found == IF hasattr(pages[i], "elements")
                      THEN PageTables(i, pages[i].elements, 1, tables)
                      ELSE <<tables>>
         IN  IF found = <<>> THEN <<>> ELSE DocumentTables(pages, i + 1, found[1])

\* DoclingProcessor.extract_tables
extract_tables(result) ==
    IF ~hasattr(result, "document") THEN <<>>
    ELSE IF ~hasattr(result.document, "pages") THEN <<>>
    ELSE LET found == DocumentTables(result.document.pages, 1, <<>>)
         IN  IF found = <<>> THEN <<>> ELSE found[1]

\* DoclingProcessor.get_processing_summary, lines 345-353, without the
\* processing options of the processor
ProcessingSummary(doc_info, page_analysis, tables) ==
    [document_info |-> doc_info, page_analysis |-> page_analysis, tables |-> tables,
     docling_version |-> "2.41.0"]

\* dict.get(key, 0) on a doc_info
InfoGet(info, key) == IF key \in DOMAIN info THEN info[key][2] ELSE 0

\* lines 146-166: the dict returned by the except clause of process_document
ProcessFailed(error) ==
    [success |-> FALSE, document_info |-> <<>>, markdown_content |-> <<>>, error |-> error]

\* lines 123-144
ProcessSucceeded(doc_info, markdown_content) ==
    [success |-> TRUE, document_info |-> doc_info, markdown_content |-> markdown_content]

\* line 114: result.document.export_to_markdown() raises
ExportRaises(conv) == ~hasattr(conv, "document") \/ conv.export_raises

\* DoclingProcessor.process_document on what the converter does with the file:
\* conv.raises (convert raises), conv.document (absent when the result has
\* none), conv.export_raises (export_to_markdown raises), conv.markdown
process_document(conv) ==
    IF conv.raises THEN ProcessFailed("convert failed")
    ELSE IF ExportRaises(conv) THEN ProcessFailed("export failed")
    ELSE ProcessSucceeded(extract_document_info(conv), conv.markdown)

-----------------------------------------------------------------------------
(* Python's re module, as far as markdown_optimizer.py uses it: a          *)
(* backtracking matcher over character sets, greedy repetition, groups,    *)
(* ^ and $ and look-ahead.  A pattern is a sequence of nodes.              *)

Inf == -1
In(S) == [t |-> "in", s |-> S]
NotIn(S) == [t |-> "notin", s |-> S]
Lit(ch) == In({ch})
Rep(r, lo, hi) == [t |-> "rep", r |-> r, lo |-> lo, hi |-> hi]
Grp(n, rs) == [t |-> "grp", n |-> n, rs |-> rs]
Bol(multiline) == [t |-> "bol", m |-> multiline]
Eol(multiline) == [t |-> "eol", m |-> multiline]
LookAhead(rs) == [t |-> "look", rs |-> rs]
\* bookkeeping nodes of the matcher
Open(n) == [t |-> "open", n |-> n]
Close(n) == [t |-> "close", n |-> n]
Advanced(from) == [t |-> "adv", from |-> from]

Groups == 1..3
NoCaps == [n \in Groups |-> <<0, 0>>]
NoMatch == [ok |-> FALSE, e |-> 0, c |-> NoCaps]

\* whether the one-character node k accepts s[i]
Accepts(k, s, i) ==
    /\ i <= Len(s)
    /\ IF k.t = "in" THEN s[i] \in k.s ELSE s[i] \notin k.s

\* how many characters from position i on a greedy repetition of the
\* one-character node k takes at first: as many as it accepts, at most hi
RunLength(k, hi, s, i) ==
    LET cap == IF hi = Inf THEN Len(s) + 1 - i ELSE Min(hi, Len(s) + 1 - i)
    IN  CHOOSE n \in 0..cap :
            /\ \A j \in 0..(n - 1) : Accepts(k, s, i + j)
            /\ n = cap \/ ~Accepts(k, s, i + n)

RECURSIVE Backtrack(_, _, _, _)
RECURSIVE GiveBack(_, _, _, _, _, _)

\* the first way, in Python's backtracking order, to match the nodes ks at
\* position i of s: [ok, e: the position after the match, c: the groups]
Backtrack(ks, s, i, c) ==
    IF ks = <<>> THEN [ok |-> TRUE, e |-> i, c |-> c]
    ELSE
    LET k == Head(ks)
        rest == Tail(ks)
    IN  CASE k.t \in {"in", "notin"} ->
                IF Accepts(k, s, i) THEN Backtrack(rest, s, i + 1, c) ELSE NoMatch
          [] k.t = "bol" ->
                IF i = 1 \/ (k.m /\ s[i - 1] = "\n") THEN Backtrack(rest, s, i, c) ELSE NoMatch
          [] k.t = "eol" ->
                IF \/ i = Len(s) + 1
                   \/ (k.m /\ s[i] = "\n")
                   \/ (~k.m /\ i = Len(s) /\ s[i] = "\n")
                THEN Backtrack(rest, s, i, c) ELSE NoMatch
          [] k.t = "grp" ->
                Backtrack(<<Open(k.n)>> \o k.rs \o <<Close(k.n)>> \o rest, s, i, c)
          [] k.t = "open" ->
                Backtrack(rest, s, i, [c EXCEPT ![k.n] = <<i, 0>>])
          [] k.t = "close" ->
                Backtrack(rest, s, i, [c EXCEPT ![k.n] = <<@[1], i>>])
          [] k.t = "adv" ->
                IF i > k.from THEN Backtrack(rest, s, i, c) ELSE NoMatch
          [] k.t = "look" ->
                IF Backtrack(k.rs, s, i, c).ok THEN Backtrack(rest, s, i, c) ELSE NoMatch
          [] k.t = "rep" /\ k.r.t \in {"in", "notin"} ->
                GiveBack(k.lo, rest, s, i, c, RunLength(k.r, k.hi, s, i))
          [] k.t = "rep" /\ k.r.t \notin {"in", "notin"} ->
                IF k.hi = 0 THEN Backtrack(rest, s, i, c)
                ELSE LET again == Rep(k.r, Max(k.lo - 1, 0), IF k.hi = Inf THEN Inf ELSE k.hi - 1)
                         more == Backtrack(<<k.r, Advanced(i), again>> \o rest, s, i, c)
                     IN  IF more.ok THEN more
                         ELSE IF k.lo = 0 THEN Backtrack(rest, s, i, c)
                         ELSE NoMatch

\* a greedy repetition of a one-character node that has taken n characters:
\* the rest is tried, and on failure one character is given back, down to lo
GiveBack(lo, rest, s, i, c, n) ==
    IF n < lo THEN NoMatch
    ELSE LET m == Backtrack(rest, s, i + n, c)
         IN  IF m.ok THEN m ELSE GiveBack(lo, rest, s, i, c, n - 1)

\* pattern.match(s, pos)
MatchAt(pattern, s, i) == Backtrack(pattern, s, i, NoCaps)

\* the text of group n of match m
Group(s, m, n) == SubSeq(s, m.c[n][1], m.c[n][2] - 1)

RECURSIVE Expand(_, _, _)
\* a replacement template: characters, and "\\1".."\\3" for the groups
Expand(template, s, m) ==
    IF template = <<>> THEN <<>>
    ELSE LET h == Head(template)
         IN  (CASE h = "\\1" -> Group(s, m, 1)
                [] h = "\\2" -> Group(s, m, 2)
                [] h = "\\3" -> Group(s, m, 3)
                [] OTHER -> <<h>>)
             \o Expand(Tail(template), s, m)

CharAt(s, i) == IF i <= Len(s) THEN <<s[i]>> ELSE <<>>

\* the first position from i on at which the pattern matches, 0 when none
NextMatch(pattern, s, i) ==
    LET at == {j \in i..(Len(s) + 1) : MatchAt(pattern, s, j).ok}
    IN  IF at = {} THEN 0 ELSE CHOOSE j \in at : \A k \in at : j <= k

RECURSIVE SubFrom(_, _, _, _)
\* the scan of re.sub from position i: text up to the next match is copied,
\* the match is replaced, and the scan goes on after it (one character
\* further when the match is empty)
SubFrom(pattern, template, s, i) ==
    Bind(LAMBDA j :
            IF j = 0 THEN From(s, i)
            ELSE Bind(LAMBDA m :
                        SubSeq(s, i, j - 1) \o Expand(template, s, m)
                        \o (IF m.e > j THEN SubFrom(pattern, template, s, m.e)
                            ELSE CharAt(s, j) \o SubFrom(pattern, template, s, j + 1)),
                      MatchAt(pattern, s, j)),
         NextMatch(pattern, s, i))

\* re.sub(pattern, template, s)
Sub(pattern, template, s) == Bind(LAMBDA string : SubFrom(pattern, template, string, 1), s)

RECURSIVE FindAllFrom(_, _, _)
FindAllFrom(pattern, s, i) ==
    Bind(LAMBDA j :
            IF j = 0 THEN 0
            ELSE Bind(LAMBDA e : 1 + FindAllFrom(pattern, s, IF e > j THEN e ELSE j + 1),
                      MatchAt(pattern, s, j).e),
         NextMatch(pattern, s, i))

\* len(re.findall(pattern, s))
FindAll(pattern, s) == Bind(LAMBDA string : FindAllFrom(pattern, string, 1), s)

-----------------------------------------------------------------------------
(* markdown_optimizer.py: the rewrite passes.  A pass takes and returns    *)
(* [content, stats]: the text and the optimizer's self.stats.              *)

NL == "\n"
Digits == {"0", "1", "2", "3", "4", "5", "6", "7", "8", "9"}
Star == Inf
Hashes == Rep(Lit("#"), 1, 6)
Spaces0 == Rep(In(Whitespace), 0, Star)
Spaces1 == Rep(In(Whitespace), 1, Star)
NotNL1 == Rep(NotIn({NL}), 1, Star)
Newlines0 == Rep(In({NL, "\r"}), 0, Star)

\* MarkdownOptimizer.__init__: self.stats
InitStats ==
    [original_length |-> 0, optimized_length |-> 0, tables_processed |-> 0,
     headings_processed |-> 0, links_processed |-> 0, optimizations_applied |-> <<>>]

Applied(stats, rule) == [stats EXCEPT !.optimizations_applied = Append(@, rule)]

clean_whitespace(st) ==
    LET a == Sub(<<Rep(Lit(" "), 1, Star), Eol(TRUE)>>, <<>>, st.content)
        b == Sub(<<Rep(Lit(NL), 3, Star)>>, <<NL, NL>>, a)
    IN  [content |-> Strip(b), stats |-> Applied(st.stats, "whitespace_cleanup")]

optimize_headings(st) ==
    LET a == Sub(<<Lit(NL), Grp(1, <<Hashes>>), Spaces0, Grp(2, <<NotNL1>>), Lit(NL)>>,
                 <<NL, NL, "\\1", " ", "\\2", NL, NL>>, st.content)
        b == Sub(<<Bol(FALSE), Grp(1, <<Hashes>>), Spaces0, Grp(2, <<NotNL1>>), Lit(NL)>>,
                 <<"\\1", " ", "\\2", NL, NL>>, a)
        headings == FindAll(<<Bol(TRUE), Hashes, Spaces1, NotNL1, Eol(TRUE)>>, b)
        counted == [st.stats EXCEPT !.headings_processed = headings]
    IN  [content |-> b,
         stats |-> IF headings > 0 THEN Applied(counted, "heading_optimization") ELSE counted]

\* \|[^\n]+\|  and  \|[^\n]+\|[\n\r]*
TableRow == <<Lit("|"), NotNL1, Lit("|")>>
TableLine == TableRow \o <<Newlines0>>
table_pattern ==
    <<Rep(Grp(1, TableLine), 1, Star),
      Rep(Grp(2, <<Lit("|"), Rep(In(Whitespace \cup {"-", ":"}), 1, Star), Lit("|"),
                   Newlines0>>), 0, 1),
      Rep(Grp(3, TableLine), 0, Star)>>

RECURSIVE CleanCells(_, _, _)
\* the loop of _clean_table_row over the cells, cleaned_cells being the
\* list built so far and n the number of cells
CleanCells(cells, cleaned_cells, n) ==
    IF cells = <<>> THEN cleaned_cells
    ELSE LET cell == Head(cells)
             kept == IF cell = <<>> /\ (Len(cleaned_cells) = 0 \/ Len(cleaned_cells) = n - 1)
                     THEN cell
                     ELSE Strip(cell)
         IN  CleanCells(Tail(cells), Append(cleaned_cells, kept), n)

clean_table_row(row) ==
    LET cells == Split(row, "|")
    IN  Join(CleanCells(cells, <<>>, Len(cells)), <<"|">>)

CleanLine(line) ==
    IF Contains(line, <<"|">>) /\ StartsWith(Strip(line), <<"|">>)
    THEN clean_table_row(line)
    ELSE line

optimize_tables(st) ==
    LET tables == FindAll(table_pattern, st.content)
        a == Sub(<<Lit(NL), Grp(1, TableRow)>>, <<NL, NL, "\\1">>, st.content)
        b == Sub(<<Grp(1, TableRow), Lit(NL), Grp(2, <<NotIn({"|", NL})>>)>>,
                 <<"\\1", NL, NL, "\\2">>, a)
        lines == Split(b, NL)
        processed_lines == [k \in 1..Len(lines) |-> CleanLine(lines[k])]
    IN  IF tables > 0
        THEN [content |-> Join(processed_lines, <<NL>>),
              stats |-> Applied([st.stats EXCEPT !.tables_processed = tables],
                                "table_optimization")]
        ELSE st

Bullet == In({"-", "*", "+"})
BulletItem == <<Bullet, Spaces1, NotNL1>>
NumberItem == <<Rep(In(Digits), 1, Star), Lit("."), Spaces1, NotNL1>>

optimize_lists(st) ==
    LET a == Sub(<<Lit(NL), Grp(1, BulletItem)>>, <<NL, NL, "\\1">>, st.content)
        b == Sub(<<Grp(1, BulletItem), Lit(NL),
                   Grp(2, <<NotIn({"-", "*", "+", NL} \cup Whitespace)>>)>>,
                 <<"\\1", NL, NL, "\\2">>, a)
        c == Sub(<<Lit(NL), Grp(1, NumberItem)>>, <<NL, NL, "\\1">>, b)
        d == Sub(<<Grp(1, NumberItem), Lit(NL), Grp(2, <<NotIn(Digits \cup Whitespace)>>)>>,
                 <<"\\1", NL, NL, "\\2">>, c)
        list_items == FindAll(<<Bol(TRUE), Bullet, Spaces1, NotNL1, Eol(TRUE)>>, d)
        numbered_items == FindAll(<<Bol(TRUE)>> \o NumberItem \o <<Eol(TRUE)>>, d)
    IN  [content |-> d,
         stats |-> IF list_items > 0 \/ numbered_items > 0
                   THEN Applied(st.stats, "list_optimization")
                   ELSE st.stats]

NotBracket1 == Rep(NotIn({"]"}), 1, Star)
NotParen1 == Rep(NotIn({")"}), 1, Star)

optimize_links(st) ==
    LET links == FindAll(<<Lit("["), Grp(1, <<NotBracket1>>), Lit("]"), Lit("("),
                           Grp(2, <<NotParen1>>), Lit(")")>>, st.content)
        a == Sub(<<Lit("["), Spaces0, Grp(1, <<NotBracket1>>), Spaces0, Lit("]"), Lit("("),
                   Spaces0, Grp(2, <<NotParen1>>), Spaces0, Lit(")")>>,
                 <<"[", "\\1", "]", "(", "\\2", ")">>, st.content)
        counted == [st.stats EXCEPT !.links_processed = links]
    IN  IF links > 0
        THEN [content |-> a, stats |-> Applied(counted, "link_optimization")]
        ELSE [content |-> st.content, stats |-> counted]

remove_empty_sections(st) ==
    LET a == Sub(<<Lit(NL), Hashes, Spaces0, Rep(NotIn({NL}), 0, Star), Lit(NL), Lit(NL),
                   LookAhead(<<Hashes>>)>>, <<NL>>, st.content)
        b == Sub(<<Rep(Lit(NL), 3, Star), Grp(1, <<Hashes>>)>>, <<NL, NL, "\\1">>, a)
    IN  [content |-> b, stats |-> Applied(st.stats, "empty_section_removal")]

\* _normalize_line_endings converting only the line ending "\r\n"
normalize_line_endings_crlf(st) ==
    LET a == Replace(st.content, <<"\r", NL>>, <<NL>>)
    IN  [content |-> RStrip(a, {NL}) \o <<NL>>,
         stats |-> Applied(st.stats, "line_ending_normalization")]

normalize_line_endings(st) ==
    LET a == Replace(Replace(st.content, <<"\r", NL>>, <<NL>>), <<"\r">>, <<NL>>)
    IN  [content |-> RStrip(a, {NL}) \o <<NL>>,
         stats |-> Applied(st.stats, "line_ending_normalization")]

NumPasses == 7

\* lines 59-65 of optimize_markdown: the passes in their order
ApplyPass(k, st) ==
    CASE k = 1 -> clean_whitespace(st)
      [] k = 2 -> optimize_headings(st)
      [] k = 3 -> optimize_tables(st)
      [] k = 4 -> optimize_lists(st)
      [] k = 5 -> optimize_links(st)
      [] k = 6 -> remove_empty_sections(st)
      [] k = 7 -> normalize_line_endings(st)

RECURSIVE RunPasses(_, _, _)
\* passes k..last applied in turn
RunPasses(st, k, last) ==
    IF k > last THEN st
    ELSE Bind(LAMBDA passed : RunPasses(passed, k + 1, last), ApplyPass(k, st))

\* lines 55-56: the state the try block starts the passes from
BeginOptimize(self_stats, markdown_content) ==
    [content |-> markdown_content,
     stats |-> [self_stats EXCEPT !.original_length = Len(markdown_content)]]

\* lines 67-86: the result of a call whose passes all returned
OptimizeSucceeded(st) ==
    LET stats == [st.stats EXCEPT !.optimized_length = Len(st.content)]
    IN  [success |-> TRUE, optimized_content |-> st.content, stats |-> stats]

\* OptimizeFailed returning the text as the passes left it
OptimizeFailedPartial(st, markdown_content) ==
    [success |-> FALSE, optimized_content |-> st.content, stats |-> st.stats]

\* lines 88-106: the result of a call one of whose passes raised
OptimizeFailed(st, markdown_content) ==
    [success |-> FALSE, optimized_content |-> markdown_content, stats |-> st.stats]

\* MarkdownOptimizer.optimize_markdown on an optimizer whose self.stats is
\* self_stats; raising_pass is the pass that raises, 0 when none does
optimize_markdown(self_stats, markdown_content, raising_pass) ==
    LET begun == BeginOptimize(self_stats, markdown_content)
    IN  IF raising_pass = 0
        THEN OptimizeSucceeded(RunPasses(begun, 1, NumPasses))
        ELSE OptimizeFailed(RunPasses(begun, 1, raising_pass - 1), markdown_content)

-----------------------------------------------------------------------------
(* metadata_analyzer.py                                                    *)

\* f"{t:.2f}" of a time of t ticks (thirds of 1/100 s), in 1/100 s
Fmt2(t) == (t + 1) \div 3

\* round(num / den, 0) for den > 0, ties to even
RoundDiv(num, den) ==
    LET q == num \div den
        rem == num - q * den
    IN  IF 2 * rem > den \/ (2 * rem = den /\ q % 2 = 1) THEN q + 1 ELSE q

\* dict.get(key, default) on a stats dict
StatGet(stats, key, default) == IF key \in DOMAIN stats THEN stats[key] ELSE default

Stages == {"s3_download", "docling_processing", "markdown_optimization", "s3_upload"}

\* TotalTime leaving out the time of the normalization
TotalTimeOfIO(processing_times) ==
    processing_times.s3_download + processing_times.docling_processing
    + processing_times.s3_upload

\* sum(processing_times.values())
TotalTime(processing_times) ==
    processing_times.s3_download + processing_times.docling_processing
    + processing_times.markdown_optimization + processing_times.s3_upload

\* _calculate_optimization_ratio with the quotient cut off, not rounded
calculate_optimization_ratio_floor(markdown_stats) ==
    LET original == StatGet(markdown_stats, "original_length", 0)
        optimized == StatGet(markdown_stats, "optimized_length", 0)
    IN  IF original = 0 THEN 0
        ELSE ((original - optimized) * 10000) \div original

\* MetadataAnalyzer._calculate_optimization_ratio, in 1/100 of a percent.
\* The quotient is rounded as a rational number; the float of the code rounds
\* the same way for the lengths read here (up to 159 it does)
calculate_optimization_ratio(markdown_stats) ==
    LET original == StatGet(markdown_stats, "original_length", 0)
        optimized == StatGet(markdown_stats, "optimized_length", 0)
    IN  IF original = 0 THEN 0
        ELSE RoundDiv((original - optimized) * 10000, original)

\* MetadataAnalyzer.generate_metadata (lines 52-123); the constant
\* processing_options and system_info entries are left out
generate_metadata(filename, docling_result, markdown_stats, processing_times, utcnow) ==
    LET doc_info == docling_result.document_info
    IN  [document_info |->
            [filename |-> filename,
             processed_at |-> utcnow,
             total_processing_time |-> Fmt2(TotalTime(processing_times)),
             processing_breakdown |-> [st \in Stages |-> Fmt2(processing_times[st])]],
         content_analysis |-> [k \in Counters |-> InfoGet(doc_info, k)],
         markdown_output |->
            [original_length |-> StatGet(markdown_stats, "original_length", 0),
             optimized_length |-> StatGet(markdown_stats, "optimized_length", 0),
             optimization_ratio |-> calculate_optimization_ratio(markdown_stats),
             optimizations_applied |-> StatGet(markdown_stats, "optimizations_applied", <<>>),
             tables_processed |-> StatGet(markdown_stats, "tables_processed", 0),
             headings_processed |-> StatGet(markdown_stats, "headings_processed", 0),
             links_processed |-> StatGet(markdown_stats, "links_processed", 0)],
         processing_log |-> <<>>]

\* MetadataAnalyzer._calculate_words_per_second, in 1/100 words per second,
\* of a time given in 1/100 s
calculate_words_per_second(total_words, centiseconds) ==
    IF centiseconds > 0 THEN RoundDiv(total_words * 10000, centiseconds) ELSE 0

Words1 == 1000
Words2 == 5000
Words3 == 10000

\* _calculate_content_richness with "at least" for "more than" in the tests
\* of the number of words
calculate_content_richness_inclusive(content_analysis) ==
    LET word_count == content_analysis.total_words
        score == (IF content_analysis.table_count > 0 THEN 2 ELSE 0)
                 + (IF content_analysis.heading_count > 0 THEN 1 ELSE 0)
                 + (IF content_analysis.list_count > 0 THEN 1 ELSE 0)
                 + (IF content_analysis.formula_count > 0 THEN 2 ELSE 0)
                 + (IF word_count >= Words3 THEN 3
                    ELSE IF word_count >= Words2 THEN 2
                    ELSE IF word_count >= Words1 THEN 1 ELSE 0)
    IN  IF score >= 7 THEN "Very High"
        ELSE IF score >= 5 THEN "High"
        ELSE IF score >= 3 THEN "Medium"
        ELSE IF score >= 1 THEN "Low"
        ELSE "Very Low"

\* MetadataAnalyzer._calculate_content_richness
calculate_content_richness(content_analysis) ==
    LET word_count == content_analysis.total_words
        score == (IF content_analysis.table_count > 0 THEN 2 ELSE 0)
                 + (IF content_analysis.heading_count > 0 THEN 1 ELSE 0)
                 + (IF content_analysis.list_count > 0 THEN 1 ELSE 0)
                 + (IF content_analysis.formula_count > 0 THEN 2 ELSE 0)
                 + (IF word_count > Words3 THEN 3
                    ELSE IF word_count > Words2 THEN 2
                    ELSE IF word_count > Words1 THEN 1 ELSE 0)
    IN  IF score >= 7 THEN "Very High"
        ELSE IF score >= 5 THEN "High"
        ELSE IF score >= 3 THEN "Medium"
        ELSE IF score >= 1 THEN "Low"
        ELSE "Very Low"

\* MetadataAnalyzer.generate_processing_report
generate_processing_report(metadata, success) ==
    LET doc_info == metadata.document_info
        content_analysis == metadata.content_analysis
        markdown_output == metadata.markdown_output
    IN  [processing_summary |->
            [status |-> IF success THEN "success" ELSE "failed",
             filename |-> doc_info.filename,
             processed_at |-> doc_info.processed_at,
             total_time |-> doc_info.total_processing_time],
         document_metrics |->
            [pages |-> content_analysis.page_count,
             words |-> content_analysis.total_words,
             characters |-> content_analysis.total_characters,
             tables |-> content_analysis.table_count,
             headings |-> content_analysis.heading_count,
             paragraphs |-> content_analysis.paragraph_count],
         output_metrics |->
            [markdown_length |-> markdown_output.optimized_length,
             optimization_ratio |-> markdown_output.optimization_ratio,
             optimizations_count |-> Len(markdown_output.optimizations_applied),
             tables_processed |-> markdown_output.tables_processed],
         performance_metrics |->
            [processing_breakdown |-> doc_info.processing_breakdown,
             words_per_second |->
                calculate_words_per_second(content_analysis.total_words,
                                           doc_info.total_processing_time)],
         quality_indicators |->
            [has_tables |-> content_analysis.table_count > 0,
             has_headings |-> content_analysis.heading_count > 0,
             has_lists |-> content_analysis.list_count > 0,
             has_formulas |-> content_analysis.formula_count > 0,
             content_richness |-> calculate_content_richness(content_analysis)]]

\* MetadataAnalyzer.export_metadata_json: the JSON document, as the value it
\* encodes
export_metadata_json(metadata) == <<"json", metadata>>

-----------------------------------------------------------------------------
(* The inputs of lambda_handler                                            *)

MaxElapsed == 2

Repeat(ch, n) == [i \in 1..n |-> ch]
With(d, key, value) == [k \in DOMAIN d \cup {key} |-> IF k = key THEN value ELSE d[k]]
Without(d, key) == [k \in DOMAIN d \ {key} |-> d[k]]

BaseEvent ==
    [source_bucket |-> <<"s", "r", "c">>,
     source_key |-> <<"i", "n", "/", "a", ".", "p", "d", "f">>,
     output_bucket |-> <<"o", "u", "t">>,
     output_key |-> <<"o", "/", "a", ".", "m", "d">>,
     metadata_key |-> <<"o", "/", "m", ".", "j", "s", "o", "n">>]

NoMetadataKey == Without(BaseEvent, "metadata_key")

\* events validate_event accepts
ValidEvents ==
    {BaseEvent,
     NoMetadataKey,
     With(NoMetadataKey, "source_key", <<"A", ".", "P", "D", "F">>),
     With(NoMetadataKey, "output_key", <<"A", ".", "M", "D">>)}

BadBuckets == {<<>>, <<"a", "b">>, Repeat("b", MaxBucketLen + 1)}
BadKeys ==
    {<<>>,
     Repeat("k", MaxKeyLen - 3) \o DotPdf,
     Repeat("k", MaxKeyLen - 2) \o DotMd,
     <<"a", "/", "/", "b", ".", "p", "d", "f">>,
     <<"/", "a", ".", "p", "d", "f">>,
     <<"a", ".", "m", "d", "/">>}

\* events that break one rule of the input contract, and two that break two
InvalidEvents ==
    {Without(BaseEvent, required_fields[k]) : k \in 1..Len(required_fields)}
    \cup {With(BaseEvent, f, b) : f \in {"source_bucket", "output_bucket"}, b \in BadBuckets}
    \cup {With(BaseEvent, f, k) : f \in {"source_key", "output_key"}, k \in BadKeys}
    \cup {With(BaseEvent, "source_key", <<"d", "o", "c", ".", "t", "x", "t">>),
          With(BaseEvent, "output_key", <<"o", "u", "t", ".", "t", "x", "t">>),
          With(With(BaseEvent, "source_key", <<"d", "o", "c", ".", "t", "x", "t">>),
               "output_key", <<"/", "a", ".", "m", "d">>),
          Without(Without(BaseEvent, "output_key"), "source_bucket")}

Events == ValidEvents \cup InvalidEvents

Element(label, text) == [label |-> Str(label), text |-> Str(text)]

L_section_header == <<"S", "e", "c", "t", "i", "o", "n", "_", "H", "e", "a", "d", "e", "r">>

T_words == <<"a", " ", "b", "c">>
T_word == <<"x", "y">>

Page(elements) == [elements |-> elements]
Document(pages) == [pages |-> pages]

\* a document with a table, a section header and a text; a document whose second
\* page holds an element with a label that is no string; a document without
\* the pages attribute
RichDocument ==
    Document(<<Page(<<Element(W_table, T_words), Element(L_section_header, T_word)>>),
               Page(<<Element(W_text, T_words)>>)>>)
BrokenDocument ==
    Document(<<Page(<<Element(W_table, T_words)>>),
               Page(<<[label |-> None, text |-> Str(T_word)]>>)>>)
BareDocument == <<>>

MD_heading == <<"#", "T", NL, "x", " ", NL>>
MD_plain == <<"a">>

Converted(document, markdown) ==
    [raises |-> FALSE, export_raises |-> FALSE, document |-> document, markdown |-> markdown]

\* what the converter can do with the downloaded file
HandlerConversions ==
    {[raises |-> TRUE, export_raises |-> FALSE, document |-> BareDocument, markdown |-> <<>>],
     [raises |-> FALSE, export_raises |-> TRUE, document |-> RichDocument, markdown |-> <<>>],
     Converted(RichDocument, MD_heading),
     Converted(BrokenDocument, MD_plain),
     Converted(BareDocument, MD_heading)}

TempNames == {"/tmp/tmpA.pdf", "/tmp/tmpB.pdf"}
Stamps == {"2026-01-01T00:00:00Z", "2026-01-01T00:00:01Z"}
\* "run-1" is the invocation that meets every input; "run-2" and "run-3" are
\* the two invocations that run side by side, or one after the other
Pair == {"run-2", "run-3"}
Runs == {"run-1"} \cup Pair

DocTxtEvent == With(BaseEvent, "source_key", <<"d", "o", "c", ".", "t", "x", "t">>)
UpperCaseMdEvent == With(NoMetadataKey, "output_key", <<"A", ".", "M", "D">>)

\* what invocation r can meet: the events it is invoked with, the time a
\* stage takes, what the converter does with the file, the pass of the
\* optimizer that raises (0: none) and the time of day.  The two invocations
\* of Pair meet two valid events and an invalid one, a document and a converter
\* that raises, an optimizer that does not raise, and stages that take less
\* time in "run-2" than in "run-3"
EventsOf(r) == IF r \in Pair THEN {BaseEvent, UpperCaseMdEvent, DocTxtEvent} ELSE Events
ElapsedOf(r) ==
    IF r = "run-2" THEN {MaxElapsed - 1}
    ELSE IF r = "run-3" THEN {MaxElapsed}
    ELSE 0..MaxElapsed
ConversionsOf(r) ==
    IF r \in Pair
    THEN {Converted(RichDocument, MD_heading),
          [raises |-> TRUE, export_raises |-> FALSE, document |-> BareDocument,
           markdown |-> <<>>]}
    ELSE HandlerConversions
RaisingPassesOf(r) == IF r \in Pair THEN {0} ELSE 0..NumPasses
StampsOf(r) == IF r = "run-2" THEN {"2026-01-01T00:00:00Z"} ELSE Stamps

-----------------------------------------------------------------------------
(* lambda_function.py: lambda_handler, one action per step                 *)

NoResponse == [statusCode |-> 0]

ZeroTimes ==
    [s3_download |-> 0, docling_processing |-> 0, markdown_optimization |-> 0, s3_upload |-> 0]

\* the locals of an invocation that has not started
IdleRun ==
    [pc |-> "idle", event |-> <<>>, processing_times |-> ZeroTimes, s3_handler |-> FALSE,
     temp_files |-> <<>>, temp_pdf_path |-> "", metadata_key |-> <<>>,
     docling_result |-> <<>>, optimized_content |-> <<>>, markdown_stats |-> <<>>,
     metadata |-> <<>>, exc |-> <<>>, response |-> NoResponse]

Called(r, op, ok, arg) == [trace EXCEPT ![r] = Append(@, [op |-> op, ok |-> ok, arg |-> arg])]
Measured(r, stage, t) == [measured EXCEPT ![r][stage] = Append(@, t)]

\* an exception that is recorded and does not leave the try block
RaiseAndGoOn(locals, message) == [locals EXCEPT !.exc = message]

\* raise Exception(message) inside the try block
Raise(locals, message) == [locals EXCEPT !.pc = "except", !.exc = message]

\* lines 29-57: the handler is entered with an event
Invoke(r, event) ==
    /\ run[r].pc = "idle"
    /\ run' = [run EXCEPT ![r] = [IdleRun EXCEPT !.pc = "validate", !.event = event]]
    /\ UNCHANGED <<files, s3, trace, measured, opt, scan, analyzer>>

\* lines 63-70: the response to an event validate_event rejects
ValidationResponse(r, validation_result) ==
    [statusCode |-> 400,
     body |-> [error |-> "Invalid input",
               message |-> <<validation_result.error, validation_result.detail>>,
               request_id |-> r]]

\* lines 60-79
Validate(r) ==
    /\ run[r].pc = "validate"
    /\ LET validation_result == validate_event(run[r].event)
       IN  /\ trace' = Called(r, "validate_event", validation_result.valid, <<>>)
           /\ run' = [run EXCEPT ![r] =
                        IF ~validation_result.valid
                        THEN [@ EXCEPT !.response = ValidationResponse(r, validation_result),
                                       !.pc = "finally"]
                        ELSE [@ EXCEPT !.pc = "parameters"]]
    /\ UNCHANGED <<files, s3, measured, opt, scan, analyzer>>

\* the key derived from the output key, whatever the event supplies
DerivedMetadataKey(event) == Replace(event.output_key, DotMd, MetadataSuffix)

\* line 86: event.get("metadata_key", output_key.replace('.md', '_metadata.json'))
MetadataKey(event) ==
    IF "metadata_key" \in DOMAIN event
    THEN event.metadata_key
    ELSE Replace(event.output_key, DotMd, MetadataSuffix)

\* ExtractParameters if the handler went back once to the validation
ExtractParametersRevalidate(r) ==
    /\ run[r].pc = "parameters"
    /\ run' = [run EXCEPT ![r] = [@ EXCEPT !.metadata_key = MetadataKey(run[r].event),
                                          !.s3_handler = TRUE,
                                          !.pc = IF Len(trace[r]) = 1 THEN "validate"
                                                 ELSE "create_temp"]]
    /\ UNCHANGED <<files, s3, trace, measured, opt, scan, analyzer>>

\* lines 82-93
ExtractParameters(r) ==
    /\ run[r].pc = "parameters"
    /\ run' = [run EXCEPT ![r] = [@ EXCEPT !.metadata_key = MetadataKey(run[r].event),
                                          !.s3_handler = TRUE,
                                          !.pc = "create_temp"]]
    /\ UNCHANGED <<files, s3, trace, measured, opt, scan, analyzer>>

\* create_temp_file if it could name a file that exists
create_temp_file_any(existing) == TempNames

\* S3Handler.create_temp_file: the names NamedTemporaryFile can give the new
\* file, which are the names no existing file has
create_temp_file(existing) == TempNames \ existing

\* lines 96-98
CreateTempFile(r) ==
    /\ run[r].pc = "create_temp"
    /\ \E path \in create_temp_file(files) :
        /\ files' = files \cup {path}
        /\ trace' = Called(r, "create_temp_file", TRUE, <<path>>)
        /\ run' = [run EXCEPT ![r] = [@ EXCEPT !.temp_pdf_path = path,
                                              !.temp_files = Append(@, path),
                                              !.pc = "download"]]
    /\ UNCHANGED <<s3, measured, opt, scan, analyzer>>

\* DownloadFile if the handler took the time of the download before it
\* looked at the outcome
DownloadFileTimed(r) ==
    /\ run[r].pc = "download"
    /\ \E download_success \in BOOLEAN, elapsed \in ElapsedOf(r) :
        /\ trace' = Called(r, "download_file", download_success,
                           <<run[r].event.source_bucket, run[r].event.source_key>>)
        /\ run' = [run EXCEPT ![r] =
                    IF ~download_success
                    THEN Raise([@ EXCEPT !.processing_times.s3_download = elapsed],
                               <<"Failed to download PDF from S3">>)
                    ELSE [@ EXCEPT !.processing_times.s3_download = elapsed,
                                   !.pc = "docling"]]
        /\ measured' = Measured(r, "s3_download", elapsed)
    /\ UNCHANGED <<files, s3, opt, scan, analyzer>>

\* lines 100-104
DownloadFile(r) ==
    /\ run[r].pc = "download"
    /\ \E download_success \in BOOLEAN, elapsed \in ElapsedOf(r) :
        /\ trace' = Called(r, "download_file", download_success,
                           <<run[r].event.source_bucket, run[r].event.source_key>>)
        /\ IF ~download_success
           THEN /\ run' = [run EXCEPT ![r] = Raise(@, <<"Failed to download PDF from S3">>)]
                /\ UNCHANGED measured
           ELSE /\ run' = [run EXCEPT ![r] = [@ EXCEPT !.processing_times.s3_download = elapsed,
                                                      !.pc = "docling"]]
                /\ measured' = Measured(r, "s3_download", elapsed)
    /\ UNCHANGED <<files, s3, opt, scan, analyzer>>

\* lines 107-113
ProcessDocument(r) ==
    /\ run[r].pc = "docling"
    /\ \E conv \in ConversionsOf(r) :
       \E docling_result \in {process_document(conv)}, elapsed \in ElapsedOf(r) :
            /\ trace' = Called(r, "process_document", docling_result.success,
                               <<run[r].temp_pdf_path>>)
            /\ IF ~docling_result.success
               THEN /\ run' = [run EXCEPT ![r] =
                                Raise(@, <<"Docling processing failed: ", docling_result.error>>)]
                    /\ UNCHANGED measured
               ELSE /\ run' = [run EXCEPT ![r] =
                                [@ EXCEPT !.docling_result = docling_result,
                                          !.processing_times.docling_processing = elapsed,
                                          !.pc = "optimize"]]
                    /\ measured' = Measured(r, "docling_processing", elapsed)
    /\ UNCHANGED <<files, s3, opt, scan, analyzer>>

\* FallbackStats with the optimized length left at 0
FallbackStatsUnset(markdown_content) ==
    [original_length |-> Len(markdown_content), optimized_length |-> 0]

\* lines 122-123: the statistics used when the optimizer reports a failure
FallbackStats(markdown_content) ==
    [original_length |-> Len(markdown_content), optimized_length |-> Len(markdown_content)]

\* lines 116-128, on a MarkdownOptimizer constructed for this invocation
OptimizeMarkdown(r) ==
    /\ run[r].pc = "optimize"
    /\ \E raising_pass \in RaisingPassesOf(r),
          markdown_content \in {run[r].docling_result.markdown_content} :
       \E optimization_result \in {optimize_markdown(InitStats, markdown_content, raising_pass)},
          elapsed \in ElapsedOf(r) :
            /\ trace' = Called(r, "optimize_markdown", optimization_result.success, <<>>)
            /\ run' = [run EXCEPT ![r] =
                        [@ EXCEPT !.optimized_content =
                                      IF ~optimization_result.success
                                      THEN markdown_content
                                      ELSE optimization_result.optimized_content,
                                  !.markdown_stats =
                                      IF ~optimization_result.success
                                      THEN FallbackStats(markdown_content)
                                      ELSE optimization_result.stats,
                                  !.processing_times.markdown_optimization = elapsed,
                                  !.pc = "metadata"]]
            /\ measured' = Measured(r, "markdown_optimization", elapsed)
    /\ UNCHANGED <<files, s3, opt, scan, analyzer>>

\* GenerateMetadata if the handler built the report a second time before the
\* uploads
GenerateMetadataTwice(r) ==
    /\ run[r].pc = "metadata"
    /\ \E utcnow \in StampsOf(r) :
       \E metadata \in {generate_metadata(Basename(run[r].event.source_key),
                                          run[r].docling_result, run[r].markdown_stats,
                                          run[r].processing_times, utcnow)} :
        run' = [run EXCEPT ![r] =
                    [@ EXCEPT !.metadata = metadata,
                              !.pc = IF \E k \in DOMAIN trace[r] :
                                            trace[r][k].op = "generate_metadata"
                                     THEN "upload_markdown" ELSE "metadata"]]
    /\ trace' = Called(r, "generate_metadata", TRUE, <<>>)
    /\ UNCHANGED <<files, s3, measured, opt, scan, analyzer>>

\* lines 131-137
GenerateMetadata(r) ==
    /\ run[r].pc = "metadata"
    /\ \E utcnow \in StampsOf(r) :
       \E metadata \in {generate_metadata(Basename(run[r].event.source_key),
                                          run[r].docling_result, run[r].markdown_stats,
                                          run[r].processing_times, utcnow)} :
        run' = [run EXCEPT ![r] = [@ EXCEPT !.metadata = metadata,
                                           !.pc = "upload_markdown"]]
    /\ trace' = Called(r, "generate_metadata", TRUE, <<>>)
    /\ UNCHANGED <<files, s3, measured, opt, scan, analyzer>>

\* S3Handler.upload_content: put_object stores the body under bucket and key
PutObject(bucket, key, body) ==
    [loc \in DOMAIN s3 \cup {<<bucket, key>>} |->
        IF loc = <<bucket, key>> THEN body ELSE s3[loc]]

\* lines 140-151
UploadMarkdown(r) ==
    /\ run[r].pc = "upload_markdown"
    /\ \E markdown_upload_success \in BOOLEAN :
        /\ trace' = Called(r, "upload_content", markdown_upload_success,
                           <<run[r].event.output_bucket, run[r].event.output_key,
                             "text/markdown", run[r].optimized_content>>)
        /\ IF ~markdown_upload_success
           THEN /\ run' = [run EXCEPT ![r] = Raise(@, <<"Failed to upload Markdown to S3">>)]
                /\ UNCHANGED s3
           ELSE /\ run' = [run EXCEPT ![r] = [@ EXCEPT !.pc = "upload_metadata"]]
                /\ s3' = PutObject(run[r].event.output_bucket, run[r].event.output_key,
                                   <<"text/markdown", run[r].optimized_content>>)
    /\ UNCHANGED <<files, measured, opt, scan, analyzer>>

\* a failed metadata upload that is passed over
MetadataUploadIgnored(locals) == [locals EXCEPT !.pc = "success"]

\* lines 162-163: if not metadata_upload_success
MetadataUploadFailed(locals) == Raise(locals, <<"Failed to upload metadata to S3">>)

\* lines 154-165
UploadMetadata(r) ==
    /\ run[r].pc = "upload_metadata"
    /\ \E metadata_upload_success \in BOOLEAN, elapsed \in ElapsedOf(r) :
        LET metadata_json == export_metadata_json(run[r].metadata)
        IN  /\ trace' = Called(r, "upload_content", metadata_upload_success,
                               <<run[r].event.output_bucket, run[r].metadata_key,
                                 "application/json", metadata_json>>)
            /\ IF ~metadata_upload_success
               THEN /\ run' = [run EXCEPT ![r] = MetadataUploadFailed(@)]
                    /\ UNCHANGED <<s3, measured>>
               ELSE /\ run' = [run EXCEPT ![r] = [@ EXCEPT !.processing_times.s3_upload = elapsed,
                                                          !.pc = "success"]]
                    /\ s3' = PutObject(run[r].event.output_bucket, run[r].metadata_key,
                                       <<"application/json", metadata_json>>)
                    /\ measured' = Measured(r, "s3_upload", elapsed)
    /\ UNCHANGED <<files, opt, scan, analyzer>>

\* SuccessResponse without performance_metrics
SuccessResponseNoMetrics(r, locals) ==
    [statusCode |-> 200,
     body |->
        [status |-> "success",
         request_id |-> r,
         outputs |->
            [markdown_s3_uri |-> <<locals.event.output_bucket, locals.event.output_key>>,
             metadata_s3_uri |-> <<locals.event.output_bucket, locals.metadata_key>>],
         processing_report |-> generate_processing_report(locals.metadata, TRUE)]]

\* lines 174-192: the body is the dict json.dumps encodes, an S3 URI the pair
\* of its bucket and key
SuccessResponse(r, locals) ==
    [statusCode |-> 200,
     body |->
        [status |-> "success",
         request_id |-> r,
         outputs |->
            [markdown_s3_uri |-> <<locals.event.output_bucket, locals.event.output_key>>,
             metadata_s3_uri |-> <<locals.event.output_bucket, locals.metadata_key>>],
         processing_summary |->
            [total_time |-> Fmt2(TotalTime(locals.processing_times)),
             page_count |-> InfoGet(locals.docling_result.document_info, "page_count"),
             content_length |-> Len(locals.optimized_content),
             table_count |-> InfoGet(locals.docling_result.document_info, "table_count")],
         performance_metrics |-> locals.processing_times,
         processing_report |-> generate_processing_report(locals.metadata, TRUE)]]

\* lines 167-205
Succeed(r) ==
    /\ run[r].pc = "success"
    /\ \E response \in {SuccessResponse(r, run[r])} :
        run' = [run EXCEPT ![r] = [@ EXCEPT !.response = response, !.pc = "finally"]]
    /\ UNCHANGED <<files, s3, trace, measured, opt, scan, analyzer>>

\* ErrorResponse with the timings reset
ErrorResponseZeroTimes(r, locals) ==
    [statusCode |-> 500,
     body |->
        [status |-> "error",
         request_id |-> r,
         error |-> locals.exc,
         processing_time |-> Fmt2(0),
         performance_metrics |-> ZeroTimes]]

\* lines 212-221
ErrorResponse(r, locals) ==
    [statusCode |-> 500,
     body |->
        [status |-> "error",
         request_id |-> r,
         error |-> locals.exc,
         processing_time |-> Fmt2(TotalTime(locals.processing_times)),
         performance_metrics |-> locals.processing_times]]

\* lines 207-233: except Exception as e
Except(r) ==
    /\ run[r].pc = "except"
    /\ run' = [run EXCEPT ![r] = [@ EXCEPT !.response = ErrorResponse(r, run[r]),
                                          !.pc = "finally"]]
    /\ UNCHANGED <<files, s3, trace, measured, opt, scan, analyzer>>

\* S3Handler.cleanup_temp_file: the files left
cleanup_temp_file(existing, file_path) == existing \ {file_path}

\* the temporary files cleaned up if only a run that succeeded cleaned up
CleanedUpOnSuccess(locals) ==
    IF locals.s3_handler /\ locals.response.statusCode = 200 THEN locals.temp_files ELSE <<>>

\* the temporary files the loop of lines 237-239 calls cleanup_temp_file on
CleanedUp(locals) == IF locals.s3_handler THEN locals.temp_files ELSE <<>>

RECURSIVE CleanupAll(_, _)
CleanupAll(existing, paths) ==
    IF paths = <<>> THEN existing
    ELSE CleanupAll(cleanup_temp_file(existing, Head(paths)), Tail(paths))

\* lines 235-239: finally, after which the handler has returned run[r].response
Finally(r) ==
    /\ run[r].pc = "finally"
    /\ files' = CleanupAll(files, CleanedUp(run[r]))
    /\ trace' = [trace EXCEPT ![r] =
                    @ \o [k \in 1..Len(CleanedUp(run[r])) |->
                            [op |-> "cleanup_temp_file", ok |-> CleanedUp(run[r])[k] \in files,
                             arg |-> <<CleanedUp(run[r])[k]>>]]]
    /\ run' = [run EXCEPT ![r] = [@ EXCEPT !.pc = "done"]]
    /\ UNCHANGED <<s3, measured, opt, scan, analyzer>>

\* a step of an invocation that has been entered
Proceed(r) ==
    \/ Validate(r)
    \/ ExtractParameters(r)
    \/ CreateTempFile(r)
    \/ DownloadFile(r)
    \/ ProcessDocument(r)
    \/ OptimizeMarkdown(r)
    \/ GenerateMetadata(r)
    \/ UploadMarkdown(r)
    \/ UploadMetadata(r)
    \/ Succeed(r)
    \/ Except(r)
    \/ Finally(r)

Step(r) ==
    \/ \E event \in EventsOf(r) : Invoke(r, event)
    \/ Proceed(r)

\* MarkdownOptimizer(): self.stats as __init__ sets it, no call made yet.  The
\* list self.stats["optimizations_applied"] is one object for the life of the
\* optimizer; results holds the dicts returned so far, inputs and raised the
\* argument of each call and the pass that raised in it (0: none)
NewOptimizer ==
    [pc |-> "idle", self_stats |-> InitStats, input |-> <<>>, content |-> <<>>, next |-> 0,
     results |-> <<>>, inputs |-> <<>>, raised |-> <<>>]
\* a DoclingProcessor before process_document is called: result is what the
\* converter makes of the file, doc_info and todo the counters and the
\* elements still to visit in _extract_document_info, returned what it
\* returned and out what process_document returned (<<>>: nothing yet)
IdleScan ==
    [pc |-> "idle", caller |-> "", result |-> <<>>, doc_info |-> ZeroDocInfo, todo |-> <<>>,
     error |-> "", returned |-> <<>>, page_analysis |-> <<>>, out |-> <<>>]

\* a MetadataAnalyzer no method of which has been called: called is the
\* method, args its arguments and returned what it returned (<<>>: nothing
\* yet)
IdleAnalyzer == [called |-> "", args |-> <<>>, returned |-> <<>>]

Init ==
    /\ run = [r \in Runs |-> IdleRun]
    /\ files = {}
    /\ s3 = <<>>
    /\ trace = [r \in Runs |-> <<>>]
    /\ measured = [r \in Runs |-> [st \in Stages |-> <<>>]]
    /\ opt = NewOptimizer
    /\ scan = IdleScan
    /\ analyzer = IdleAnalyzer

\* one invocation of lambda_handler
Next == Step("run-1")

Spec == Init /\ [][Next]_vars

-----------------------------------------------------------------------------
(* Properties of lambda_handler                                            *)

\* the calls of run r to its collaborators, the clean-up of finally aside
Calls(r) == SelectSeq(trace[r], LAMBDA c : c.op # "cleanup_temp_file")
Ops(calls) == [k \in DOMAIN calls |-> calls[k].op]

IsUpload(c, content_type) == c.op = "upload_content" /\ c.arg[3] = content_type
IsMarkdownUpload(c) == IsUpload(c, "text/markdown")
IsMetadataUpload(c) == IsUpload(c, "application/json")

Returned(r) == run[r].pc = "done"
Status(r) == run[r].response.statusCode

\* a failure of a stage that ends the run
StageFailure(c) ==
    /\ ~c.ok
    /\ c.op \in {"download_file", "process_document"} \/ IsMarkdownUpload(c)

\* C1: once download_file, process_document or the Markdown upload has
\* failed in a run, the run calls no collaborator again but to clean up, and
\* it returns status 500.
C1_FailedStageEndsRun ==
    \A r \in Runs : \A k \in DOMAIN trace[r] :
        StageFailure(trace[r][k]) =>
            /\ \A l \in (k + 1)..Len(trace[r]) : trace[r][l].op = "cleanup_temp_file"
            /\ Returned(r) => Status(r) = 500

C1_Witness ==
    \E r \in Runs :
        /\ Returned(r)
        /\ \E k \in DOMAIN trace[r] : IsMarkdownUpload(trace[r][k]) /\ ~trace[r][k].ok
        /\ \E k \in DOMAIN trace[r] : trace[r][k].op = "process_document" /\ trace[r][k].ok

\* the temporary files run r created
Created(r) == {c.arg[1] : c \in {trace[r][k] : k \in {j \in DOMAIN trace[r] :
                                        trace[r][j].op = "create_temp_file"}}}
CleanupCalls(r, path) ==
    {k \in DOMAIN trace[r] : trace[r][k].op = "cleanup_temp_file" /\ trace[r][k].arg = <<path>>}

MetadataUploadFailedAlone(r) ==
    /\ Returned(r)
    /\ \E k \in DOMAIN trace[r] : IsMarkdownUpload(trace[r][k]) /\ trace[r][k].ok
    /\ \E k \in DOMAIN trace[r] : IsMetadataUpload(trace[r][k]) /\ ~trace[r][k].ok

NoMetadataLocation(body) ==
    "outputs" \in DOMAIN body => "metadata_s3_uri" \notin DOMAIN body.outputs

BadPath(bucket, key) ==
    \/ Len(bucket) < 3 \/ Len(bucket) > 63
    \/ Len(key) = 0 \/ Len(key) > 1024
    \/ \E i \in 1..(Len(key) - 1) : key[i] = "/" /\ key[i + 1] = "/"
    \/ key[1] = "/" \/ key[Len(key)] = "/"

HasSuffix(key, suffix) ==
    /\ Len(key) >= Len(suffix)
    /\ \A i \in 1..Len(suffix) :
            key[Len(key) - Len(suffix) + i] \in suffix[i]

ViolatesRule(event) ==
    \/ {"source_bucket", "source_key", "output_bucket", "output_key"} \ DOMAIN event # {}
    \/ BadPath(event.source_bucket, event.source_key)
    \/ BadPath(event.output_bucket, event.output_key)
    \/ ~HasSuffix(event.source_key, <<{"."}, {"p", "P"}, {"d", "D"}, {"f", "F"}>>)
    \/ ~HasSuffix(event.output_key, <<{"."}, {"m", "M"}, {"d", "D"}>>)

\* C4: a run on an event that violates a rule of the input contract calls
\* nothing but validate_event, creates no temporary file and returns status
\* 400; for the event whose source key is "doc.txt" the message is "Source
\* file must be a PDF".
C4_InvalidEventRejectedBeforeIO ==
    \A r \in Runs :
        (run[r].pc # "idle" /\ ViolatesRule(run[r].event)) =>
            /\ \A k \in DOMAIN trace[r] : trace[r][k].op = "validate_event"
            /\ Created(r) = {}
            /\ run[r].pc \in {"validate", "finally", "done"}
            /\ Returned(r) =>
                /\ Status(r) = 400
                /\ run[r].event = DocTxtEvent =>
                        run[r].response.body.message[1] = "Source file must be a PDF"

C4_Witness ==
    \E r \in Runs : Returned(r) /\ run[r].event = DocTxtEvent /\ Status(r) = 400

\* the last call of run r before the clean-up
LastCall(r) == Calls(r)[Len(Calls(r))]

\* the response names the step call c belongs to
NamesStep(response, c) ==
    IF response.statusCode = 400
    THEN response.body.error = "Invalid input" /\ c.op = "validate_event"
    ELSE CASE c.op = "download_file" ->
                response.body.error = <<"Failed to download PDF from S3">>
           [] c.op = "process_document" ->
                response.body.error[1] = "Docling processing failed: "
           [] IsMarkdownUpload(c) ->
                response.body.error = <<"Failed to upload Markdown to S3">>
           [] IsMetadataUpload(c) ->
                response.body.error = <<"Failed to upload metadata to S3">>
           [] OTHER -> FALSE

\* the body holds the time measured for every stage that was timed
CarriesTimings(r, body) ==
    \A stage \in Stages :
        measured[r][stage] # <<>> =>
            /\ "performance_metrics" \in DOMAIN body
            /\ body.performance_metrics[stage] = measured[r][stage][Len(measured[r][stage])]

\* C5: a response of status 400 or 500 names the step that failed, which is
\* the last step the run took, and its body holds the measured time of every
\* stage completed before.
C5_FailureNamesStepAndTimings ==
    \A r \in Runs :
        (Returned(r) /\ Status(r) \in {400, 500}) =>
            /\ ~LastCall(r).ok
            /\ NamesStep(run[r].response, LastCall(r))
            /\ CarriesTimings(r, run[r].response.body)

C5_Witness ==
    \E r \in Runs :
        /\ Returned(r) /\ Status(r) = 500
        /\ LastCall(r).op = "upload_content"
        /\ run[r].response.body.performance_metrics.s3_download > 0
        /\ run[r].response.body.performance_metrics.docling_processing > 0

OptimizeFailedIn(r) ==
    \E k \in DOMAIN trace[r] : trace[r][k].op = "optimize_markdown" /\ ~trace[r][k].ok

\* after a failed optimize_markdown the run goes on to generate_metadata and
\* to the upload of the Markdown, and what it uploads is the Markdown of
\* process_document
GoesOnUnmodified(r) ==
    /\ run[r].pc # "optimize"
    /\ run[r].pc # "metadata" => \E k \in DOMAIN trace[r] : trace[r][k].op = "generate_metadata"
    /\ run[r].pc \notin {"metadata", "upload_markdown"} =>
            \E k \in DOMAIN trace[r] : IsMarkdownUpload(trace[r][k])
    /\ \A k \in DOMAIN trace[r] :
            IsMarkdownUpload(trace[r][k]) =>
                trace[r][k].arg[4] = run[r].docling_result.markdown_content

\* C6 as stated: a failed optimize_markdown does not end the run, the content
\* uploaded is the Markdown of process_document, and the statistics passed on
\* hold a field that marks them as a fallback.
C6_Original ==
    \A r \in Runs :
        OptimizeFailedIn(r) =>
            /\ GoesOnUnmodified(r)
            /\ DOMAIN run[r].markdown_stats \ DOMAIN InitStats # {}

\* C6, amended: a failed optimize_markdown does not end the run, the content
\* uploaded is the Markdown of process_document, and the statistics passed on
\* hold original_length and optimized_length, both the length of that
\* Markdown, and nothing else.
C6_OptimizeFailureFallsBack ==
    \A r \in Runs :
        OptimizeFailedIn(r) =>
            /\ GoesOnUnmodified(r)
            /\ run[r].markdown_stats =
                    [original_length |-> Len(run[r].docling_result.markdown_content),
                     optimized_length |-> Len(run[r].docling_result.markdown_content)]

C6_Witness ==
    \E r \in Runs :
        /\ OptimizeFailedIn(r) /\ Returned(r) /\ Status(r) = 200
        /\ run[r].docling_result.markdown_content = MD_heading
        /\ optimize_markdown(InitStats, MD_heading, 0).optimized_content # MD_heading
        /\ s3[<<run[r].event.output_bucket, run[r].event.output_key>>] =
                <<"text/markdown", MD_heading>>

C10_SuccessOnlyAfterAllStages ==
    \A r \in Runs :
        Status(r) = 200 =>
            LET calls == Calls(r)
                body == run[r].response.body
            IN  /\ Ops(calls) = <<"validate_event", "create_temp_file", "download_file",
                                  "process_document", "optimize_markdown",
                                  "generate_metadata", "upload_content", "upload_content">>
                /\ \A k \in {1, 3, 4, 7, 8} : calls[k].ok
                /\ {"outputs", "processing_report", "performance_metrics"} \subseteq DOMAIN body
                /\ IsMarkdownUpload(calls[7]) /\ IsMetadataUpload(calls[8])
                /\ body.outputs.markdown_s3_uri = <<calls[7].arg[1], calls[7].arg[2]>>
                /\ body.outputs.metadata_s3_uri = <<calls[8].arg[1], calls[8].arg[2]>>
                /\ body.processing_report = generate_processing_report(calls[8].arg[4][2], TRUE)
                /\ DOMAIN body.performance_metrics = Stages
                /\ \A stage \in Stages :
                        /\ Len(measured[r][stage]) = 1
                        /\ body.performance_metrics[stage] = measured[r][stage][1]

C10_Witness ==
    \E r \in Runs :
        /\ Returned(r) /\ Status(r) = 200
        /\ \A stage \in Stages : run[r].response.body.performance_metrics[stage] > 0

-----------------------------------------------------------------------------
(* markdown_optimizer.py: calls of optimize_markdown on one optimizer, a   *)
(* step per rewrite pass                                                   *)

MaxLen == 3
MaxCalls == 2

Alphabet == {"#", " ", NL, "a"}
Inputs == UNION {[1..n -> Alphabet] : n \in 0..MaxLen}
\* the arguments of the calls after the first
LaterInputs == {<<"#", "a", NL>>, <<"a", " ">>}

\* self.stats.copy(): the counters are copied, the list optimizations_applied
\* is the optimizer's own list
AppliedRef == <<"self.stats[optimizations_applied]">>
ShallowCopy(stats) == [stats EXCEPT !.optimizations_applied = AppliedRef]
ReturnedDict(result) == [result EXCEPT !.stats = ShallowCopy(@)]

\* the stats of a returned dict as a reader finds them now
ReadStats(stats) ==
    [stats EXCEPT !.optimizations_applied = opt.self_stats.optimizations_applied]

\* lines 31-56: optimize_markdown is called
OptCall(markdown_content) ==
    /\ opt.pc = "idle"
    /\ Len(opt.inputs) < MaxCalls
    /\ \E begun \in {BeginOptimize(opt.self_stats, markdown_content)} :
        opt' = [opt EXCEPT !.pc = "passes", !.self_stats = begun.stats,
                           !.input = markdown_content, !.content = begun.content,
                           !.next = 1, !.inputs = Append(@, markdown_content)]
    /\ UNCHANGED <<run, files, s3, trace, measured, scan, analyzer>>

\* one of lines 59-65 returns
OptPass ==
    /\ opt.pc = "passes"
    /\ opt.next <= NumPasses
    /\ \E passed \in {ApplyPass(opt.next, [content |-> opt.content, stats |-> opt.self_stats])} :
        opt' = [opt EXCEPT !.content = passed.content, !.self_stats = passed.stats,
                           !.next = @ + 1]
    /\ UNCHANGED <<run, files, s3, trace, measured, scan, analyzer>>

\* one of lines 59-65 raises, before it has changed self.stats: lines 88-106
OptRaise ==
    /\ opt.pc = "passes"
    /\ opt.next <= NumPasses
    /\ \E result \in {OptimizeFailed([content |-> opt.content, stats |-> opt.self_stats],
                                     opt.input)} :
        opt' = [opt EXCEPT !.pc = "idle", !.results = Append(@, ReturnedDict(result)),
                           !.raised = Append(@, opt.next)]
    /\ UNCHANGED <<run, files, s3, trace, measured, scan, analyzer>>

\* lines 67-86: all passes have returned
OptReturn ==
    /\ opt.pc = "passes"
    /\ opt.next = NumPasses + 1
    /\ \E result \in {OptimizeSucceeded([content |-> opt.content, stats |-> opt.self_stats])} :
        opt' = [opt EXCEPT !.pc = "idle", !.self_stats = result.stats,
                           !.results = Append(@, ReturnedDict(result)),
                           !.raised = Append(@, 0)]
    /\ UNCHANGED <<run, files, s3, trace, measured, scan, analyzer>>

NextOpt ==
    \/ \E markdown_content \in (IF opt.inputs = <<>> THEN Inputs ELSE LaterInputs) :
            OptCall(markdown_content)
    \/ OptPass
    \/ OptRaise
    \/ OptReturn

SpecOpt == Init /\ [][NextOpt]_vars

\* C7: every call of optimize_markdown that has ended has returned a dict;
\* when a pass raised in it, whichever, the dict has success False and its
\* optimized_content is the argument of the call, character for character.
C7_FailureReturnsOriginal ==
    /\ Len(opt.results) = Len(opt.inputs) - (IF opt.pc = "passes" THEN 1 ELSE 0)
    /\ Len(opt.raised) = Len(opt.results)
    /\ \A k \in DOMAIN opt.results :
            opt.raised[k] # 0 =>
                /\ ~opt.results[k].success
                /\ opt.results[k].optimized_content = opt.inputs[k]

\* a pass raised after earlier passes had rewritten the text
C7_Witness ==
    /\ opt.pc = "idle"
    /\ opt.results # <<>>
    /\ opt.raised[Len(opt.raised)] = NumPasses
    /\ opt.content # opt.input
    /\ opt.results[Len(opt.results)].optimized_content = opt.input

-----------------------------------------------------------------------------
(* docling_processor.py: process_document on one conversion result, a step *)
(* per element of the structural scan                                      *)

MaxItems == 4

\* the elements of the scanned documents: a table with text, an element
\* without text whose label names no category, an object with neither label
\* nor text, and an element whose label is None
ElementKinds ==
    {Element(W_table, T_words),
     [label |-> Str(L_section_header)],
     <<>>,
     [label |-> None, text |-> Str(T_word)]}

PageBreak == [page_break |-> TRUE]

RECURSIVE PagesOf(_, _)
\* the pages of the document whose elements are items, a PageBreak ending a
\* page; elements are those of the page being read
PagesOf(items, elements) ==
    IF items = <<>> THEN <<Page(elements)>>
    ELSE IF Head(items) = PageBreak
    THEN <<Page(elements)>> \o PagesOf(Tail(items), <<>>)
    ELSE PagesOf(Tail(items), Append(elements, Head(items)))

ItemSeqs == UNION {[1..n -> ElementKinds \cup {PageBreak}] : n \in 0..MaxItems}

\* what the converter can return: a document of pages of elements, a document
\* one page of which has no elements attribute, a document without pages, a
\* result without document, or an exception
Conversions ==
    {[raises |-> FALSE, export_raises |-> x, document |-> Document(PagesOf(items, <<>>)),
      markdown |-> MD_plain] : x \in BOOLEAN, items \in ItemSeqs}
    \cup {Converted(Document(<<Page(<<Element(W_table, T_words)>>), <<>>>>), MD_plain),
          Converted(BareDocument, MD_plain),
          [raises |-> FALSE, export_raises |-> FALSE, markdown |-> MD_plain],
          [raises |-> TRUE, export_raises |-> FALSE, document |-> BareDocument,
           markdown |-> <<>>]}

\* lines 103-105: self.converter.convert(file_path)
DocConvert(conv) ==
    /\ scan.pc = "idle"
    /\ scan' = IF conv.raises
               THEN [scan EXCEPT !.pc = "done", !.result = conv,
                                 !.caller = "process_document",
                                 !.out = <<ProcessFailed("convert failed")>>]
               ELSE [scan EXCEPT !.pc = "extract", !.result = conv,
                                 !.caller = "process_document"]
    /\ UNCHANGED <<run, files, s3, trace, measured, opt, analyzer>>

\* where _extract_document_info returns to: line 111 of process_document or
\* line 341 of get_processing_summary
AfterExtract ==
    IF scan.caller = "process_document" THEN "export" ELSE "analyze"

\* lines 178-192 of _extract_document_info
ExtractBegin ==
    /\ scan.pc = "extract"
    /\ scan' = IF ~hasattr(scan.result, "document")
               THEN [scan EXCEPT !.pc = "extract_except", !.error = DocumentError]
               ELSE [scan EXCEPT !.pc = "loop",
                                 !.doc_info = StartDocInfo(scan.result.document),
                                 !.todo = ElementsToVisit(scan.result.document)]
    /\ UNCHANGED <<run, files, s3, trace, measured, opt, analyzer>>

\* lines 197-215: the loop body on the next element
ScanElement ==
    /\ scan.pc = "loop"
    /\ scan.todo # <<>>
    /\ scan' = IF LabelRaises(Head(scan.todo))
               THEN [scan EXCEPT !.pc = "extract_except", !.error = LabelError]
               ELSE [scan EXCEPT !.doc_info = CountElement(@, Head(scan.todo)),
                                 !.todo = Tail(@)]
    /\ UNCHANGED <<run, files, s3, trace, measured, opt, analyzer>>

\* line 217: return doc_info
ExtractReturn ==
    /\ scan.pc = "loop"
    /\ scan.todo = <<>>
    /\ scan' = [scan EXCEPT !.pc = AfterExtract, !.returned = <<TagInts(scan.doc_info)>>]
    /\ UNCHANGED <<run, files, s3, trace, measured, opt, analyzer>>

\* lines 219-231: except Exception as e
ExtractExcept ==
    /\ scan.pc = "extract_except"
    /\ scan' = [scan EXCEPT !.pc = AfterExtract, !.returned = <<ErrorDocInfo(scan.error)>>]
    /\ UNCHANGED <<run, files, s3, trace, measured, opt, analyzer>>

\* lines 113-166: export_to_markdown and the return of process_document
Export ==
    /\ scan.pc = "export"
    /\ scan' = [scan EXCEPT
                  !.pc = "done",
                  !.out = IF ExportRaises(scan.result)
                          THEN <<ProcessFailed("export failed")>>
                          ELSE <<ProcessSucceeded(scan.returned[1], scan.result.markdown)>>]
    /\ UNCHANGED <<run, files, s3, trace, measured, opt, analyzer>>

NextDoc ==
    \/ \E conv \in Conversions : DocConvert(conv)
    \/ ExtractBegin
    \/ ScanElement
    \/ ExtractReturn
    \/ ExtractExcept
    \/ Export

SpecDoc == Init /\ [][NextDoc]_vars

\* the scan of _extract_document_info failed
ScanFailed == scan.error # ""

AllZero(info) == \A c \in Counters : info[c] = <<"int", 0>>

\* C8: _extract_document_info returns, whatever the conversion result, a dict
\* with the eight counters; when a step of the scan failed the counters are
\* all 0, whatever was counted before, extraction_error is present, and
\* process_document, unless export_to_markdown raises, returns success True
\* with that dict; a document without pages gives the eight counters at 0 and
\* no extraction_error.
C8_ScanNeverRaises ==
    /\ scan.pc \in {"export", "done"} /\ ~scan.result.raises =>
        /\ Len(scan.returned) = 1
        /\ Counters \subseteq DOMAIN scan.returned[1]
        /\ ScanFailed =>
                AllZero(scan.returned[1]) /\ "extraction_error" \in DOMAIN scan.returned[1]
        /\ (hasattr(scan.result, "document") /\ ~hasattr(scan.result.document, "pages")) =>
                AllZero(scan.returned[1]) /\ DOMAIN scan.returned[1] = Counters
    /\ (scan.pc = "done" /\ ScanFailed /\ ~ExportRaises(scan.result)) =>
        scan.out = <<[success |-> TRUE, document_info |-> scan.returned[1],
                      markdown_content |-> scan.result.markdown]>>

\* a scan that failed after it had counted a table and its words
C8_Witness ==
    /\ scan.pc = "done"
    /\ ScanFailed
    /\ scan.doc_info.table_count > 0 /\ scan.doc_info.total_words > 0
    /\ scan.out[1].success
    /\ AllZero(scan.out[1].document_info)

-----------------------------------------------------------------------------
(* docling_processor.py: get_processing_summary on one conversion result:  *)
(* _extract_document_info a step per element, then analyze_page_structure  *)
(* and extract_tables                                                      *)

MaxElements == 3

L_table_heading == <<"T", "a", "b", "l", "e", "-", "H", "e", "a", "d", "i", "n", "g">>
L_title == <<"T", "i", "t", "l", "e">>
L_list_item == <<"l", "i", "s", "t", "_", "i", "t", "e", "m">>
L_picture == <<"p", "i", "c", "t", "u", "r", "e">>

TableHeading == Element(L_table_heading, T_words)
Picture == Element(L_picture, T_words)

\* the elements of the summarised documents: one per category, "Table-Heading"
\* that names two, a picture that names none, and an element whose label is
\* None
SummaryKinds ==
    {TableHeading,
     Element(L_title, T_word),
     Element(W_text, T_words),
     Element(L_list_item, T_word),
     [label |-> Str(W_formula)],
     Picture,
     [label |-> None, text |-> Str(T_word)]}

SummaryItems == UNION {[1..n -> SummaryKinds \cup {PageBreak}] : n \in 0..MaxElements}

\* the conversion results summarised: documents of pages of elements, a
\* document one page of which has no elements attribute, a document without
\* pages, and a result without document
SummaryResults ==
    {Converted(Document(PagesOf(items, <<>>)), MD_plain) : items \in SummaryItems}
    \cup {Converted(Document(<<Page(<<Element(W_table, T_words)>>), <<>>>>), MD_plain),
          Converted(BareDocument, MD_plain),
          [raises |-> FALSE, export_raises |-> FALSE, markdown |-> MD_plain]}

\* lines 340-341: get_processing_summary(result) calls _extract_document_info
Summarize(result) ==
    /\ scan.pc = "idle"
    /\ scan' = [scan EXCEPT !.pc = "extract", !.result = result,
                            !.caller = "get_processing_summary"]
    /\ UNCHANGED <<run, files, s3, trace, measured, opt, analyzer>>

\* line 342
AnalyzePageStructure ==
    /\ scan.pc = "analyze"
    /\ \E page_analysis \in {analyze_page_structure(scan.result)} :
            scan' = [scan EXCEPT !.pc = "tables", !.page_analysis = page_analysis]
    /\ UNCHANGED <<run, files, s3, trace, measured, opt, analyzer>>

\* lines 343-353
SummaryReturn ==
    /\ scan.pc = "tables"
    /\ \E tables \in {extract_tables(scan.result)} :
            scan' = [scan EXCEPT
                       !.pc = "done",
                       !.out = <<ProcessingSummary(scan.returned[1], scan.page_analysis,
                                                   tables)>>]
    /\ UNCHANGED <<run, files, s3, trace, measured, opt, analyzer>>

NextSummary ==
    \/ \E result \in SummaryResults : Summarize(result)
    \/ ExtractBegin
    \/ ScanElement
    \/ ExtractReturn
    \/ ExtractExcept
    \/ AnalyzePageStructure
    \/ SummaryReturn

SpecSummary == Init /\ [][NextSummary]_vars

\* the five category counters in the order of their tests, each with the
\* words that select it
CategoryOrder ==
    <<[counter |-> "table_count", words |-> {W_table}],
      [counter |-> "heading_count", words |-> {W_heading, W_title}],
      [counter |-> "paragraph_count", words |-> {W_paragraph, W_text}],
      [counter |-> "list_count", words |-> {W_list}],
      [counter |-> "formula_count", words |-> {W_formula, W_equation}]>>

CategoryCounters == {CategoryOrder[k].counter : k \in DOMAIN CategoryOrder}

Occurs(word, t) ==
    \E i \in 1..(Len(t) - Len(word) + 1) : SubSeq(t, i, i + Len(word) - 1) = word

Names(k, t) == \E word \in CategoryOrder[k].words : Occurs(word, t)

\* the counters of the first category in the order that the label names: one
\* counter, or none
Selected(t) ==
    {CategoryOrder[k].counter :
        k \in {j \in DOMAIN CategoryOrder :
                    Names(j, t) /\ \A i \in 1..(j - 1) : ~Names(i, t)}}

\* the number of words of a text: the positions at which a word begins
TextWords(text) ==
    Cardinality({i \in 1..Len(text) :
                    /\ text[i] \notin Whitespace
                    /\ i = 1 \/ text[i - 1] \in Whitespace})

\* the loop of _extract_document_info has counted the element at the head of
\* scan.todo
ElementCounted == scan.pc = "loop" /\ scan'.pc = "loop" /\ scan'.todo # scan.todo

\* C12: each element the loop of _extract_document_info counts adds 1 to the
\* counter of the first category, in the order table, heading/title,
\* paragraph/text, list, formula/equation, a word of which occurs in its
\* lower-cased label, and to no other category counter; "table-heading" adds
\* 1 to table_count and 0 to heading_count; an element of no category adds
\* to no category counter; every element adds the length and the number of
\* words of its text to total_characters and total_words.
C12_FirstMatchingCategory ==
    [][ElementCounted =>
        LET element == Head(scan.todo)
            label == IF "label" \in DOMAIN element THEN Lower(element.label[2]) ELSE <<>>
            text == IF "text" \in DOMAIN element /\ element.text # None
                    THEN element.text[2] ELSE <<>>
            added(c) == scan'.doc_info[c] - scan.doc_info[c]
        IN  /\ Cardinality(Selected(label)) <= 1
            /\ \A c \in CategoryCounters :
                    added(c) = IF c \in Selected(label) THEN 1 ELSE 0
            /\ label = <<"t", "a", "b", "l", "e", "-", "h", "e", "a", "d", "i", "n", "g">> =>
                    added("table_count") = 1 /\ added("heading_count") = 0
            /\ added("total_characters") = Len(text)
            /\ added("total_words") = TextWords(text)
            /\ added("page_count") = 0]_vars

\* the scan has counted a "Table-Heading" with text as one table and a picture
\* with text in no category
C12_Witness ==
    /\ scan.pc = "loop"
    /\ scan.todo = <<>>
    /\ ElementsToVisit(scan.result.document) = <<TableHeading, Picture>>
    /\ scan.doc_info.table_count = 1
    /\ \A c \in CategoryCounters \ {"table_count"} : scan.doc_info[c] = 0
    /\ scan.doc_info.total_characters = 2 * Len(T_words)
    /\ scan.doc_info.total_words = 4

RECURSIVE SumOver(_, _)
\* sum(page[counter] for page in page_analysis)
SumOver(page_analysis, counter) ==
    IF page_analysis = <<>> THEN 0
    ELSE Head(page_analysis)[counter] + SumOver(Tail(page_analysis), counter)

Summarized == scan.caller = "get_processing_summary" /\ scan.pc = "done"

\* C13: for every conversion result, the table_count entries of the list
\* analyze_page_structure returns add up to the table_count that
\* _extract_document_info returns, and so do the heading_count and the
\* paragraph_count entries, also when the scans failed on an element or on
\* the result.
C13_PageCountsAddUp ==
    Summarized =>
        \A c \in {"table_count", "heading_count", "paragraph_count"} :
            SumOver(scan.out[1].page_analysis, c) = scan.out[1].document_info[c][2]

\* a summary of two pages with a table on the first and a heading on the
\* second
C13_Witness ==
    /\ Summarized
    /\ Len(scan.out[1].page_analysis) = 2
    /\ scan.out[1].page_analysis[1].table_count = 1
    /\ scan.out[1].page_analysis[2].heading_count = 1
    /\ scan.out[1].document_info.table_count = <<"int", 1>>
    /\ scan.out[1].document_info.heading_count = <<"int", 1>>

-----------------------------------------------------------------------------
(* Properties of validate_event                                            *)

DoubledSeparatorEvent ==
    With(BaseEvent, "source_key", <<"a", "/", "/", "b", ".", "p", "d", "f">>)

\* the validate_event calls of run r
ValidateCalls(r) == {k \in DOMAIN trace[r] : trace[r][k].op = "validate_event"}

\* C11: validate_event accepts an event exactly when the event has the four
\* location fields, both bucket names have length 3 to 63, both keys are
\* non-empty, at most 1024 characters long, without "//" and without a
\* leading or trailing "/", the source key ends with ".pdf" and the output
\* key with ".md" in any letter case; every other event is rejected with a
\* non-empty error.
C11_ValidateEventExact ==
    \A r \in Runs : \A k \in ValidateCalls(r) :
        /\ trace[r][k].ok <=> ~ViolatesRule(run[r].event)
        /\ ~trace[r][k].ok =>
            /\ Status(r) = 400
            /\ run[r].response.body.message[1] # ""

C11_Witness ==
    \E r \in Runs : \E k \in ValidateCalls(r) :
        /\ run[r].event = DoubledSeparatorEvent
        /\ ~trace[r][k].ok
        /\ run[r].response.body.message = <<"Invalid source S3 path: ", "Invalid key format">>

-----------------------------------------------------------------------------
(* markdown_optimizer.py: optimize_markdown on a new MarkdownOptimizer, a   *)
(* step per pass, and then on the text it returned with another new        *)
(* MarkdownOptimizer                                                       *)

MaxLines == 4

\* the lines of the normalised documents: an empty heading, a heading without
\* the space, a line of text, a list item and a blank line
LineKinds == {<<"#">>, <<"#", "a">>, <<"a">>, <<"-", " ", "x">>, <<>>}

\* the text of lines, each ended by a newline
TextOf(lines) == IF lines = <<>> THEN <<>> ELSE Join(lines, <<NL>>) \o <<NL>>

LineDocs == {TextOf(lines) : lines \in UNION {[1..n -> LineKinds] : n \in 0..MaxLines}}

\* "#Title", "text", three blank lines, "- item1", "- item2"
ScenarioInput ==
    <<"#", "T", "i", "t", "l", "e", NL, "t", "e", "x", "t", NL, NL, NL, NL,
      "-", " ", "i", "t", "e", "m", "1", NL, "-", " ", "i", "t", "e", "m",
      "2", NL>>

\* a table row and a link with stray spaces
TableAndLink ==
    <<"|", "a", " ", "|", "b", "|", NL, "[", " ", "t", " ", "]", "(", " ",
      "u", " ", ")", NL>>

\* a link whose text and target have a space before them, after them, on both
\* sides or on neither
Padding == {<<>>, <<" ">>}
LinkDocs ==
    {<<"[">> \o a \o <<"t", "]", "(">> \o c \o <<"u">> \o d \o <<")", NL>> :
        a \in Padding, c \in Padding, d \in Padding}
    \cup {<<"[", "t", " ", "]", "(", "u", ")", NL>>}

\* texts with the line endings "\r\n" and "\r"
CR == "\r"
CarriageReturnDocs ==
    {<<"a", CR, NL, "b", CR>>, <<"a", CR, "b", NL>>, <<CR, NL>>, <<"a", CR, NL, CR, NL>>,
     <<"#", "a", CR, NL, "b", NL, NL>>}

NormInputs == LineDocs \cup LinkDocs \cup CarriageReturnDocs \cup {ScenarioInput, TableAndLink}

\* MarkdownOptimizer().optimize_markdown(markdown_content)
NormCall(markdown_content) ==
    /\ opt.inputs = <<>>
    /\ OptCall(markdown_content)

\* MarkdownOptimizer().optimize_markdown(optimized_content) on the text the
\* first optimizer returned; the list of the first optimizer, which nothing
\* appends to any more, is written into the dict it returned
Renormalize ==
    /\ opt.pc = "idle"
    /\ Len(opt.results) = 1
    /\ \E begun \in {BeginOptimize(InitStats, opt.results[1].optimized_content)} :
        opt' = [opt EXCEPT !.pc = "passes", !.self_stats = begun.stats,
                           !.input = begun.content, !.content = begun.content,
                           !.next = 1, !.inputs = Append(@, begun.content),
                           !.results = <<[@[1] EXCEPT !.stats = ReadStats(@)]>>]
    /\ UNCHANGED <<run, files, s3, trace, measured, scan, analyzer>>

NextNorm ==
    \/ \E markdown_content \in NormInputs : NormCall(markdown_content)
    \/ OptPass
    \/ OptReturn
    \/ Renormalize

SpecNorm == Init /\ [][NextNorm]_vars

\* the first optimizer has returned
Normalized == Len(opt.results) >= 1
\* the second optimizer has returned
NormalizedTwice == Len(opt.results) = 2 /\ opt.pc = "idle"

\* C14: optimize_markdown, run by a new optimizer on the text a new optimizer
\* returned for an input, returns that text unchanged.
C14_NormalizationIdempotent ==
    NormalizedTwice => opt.results[2].optimized_content = opt.results[1].optimized_content

\* the lines of a text: str.split on the newline
LinesOf(text) == Split(text, NL)

T_heading == <<"#", " ", "T", "i", "t", "l", "e">>
T_text == <<"t", "e", "x", "t">>
T_item1 == <<"-", " ", "i", "t", "e", "m", "1">>
T_item2 == <<"-", " ", "i", "t", "e", "m", "2">>

\* C15: for the input "#Title", "text", three blank lines, "- item1",
\* "- item2", optimize_markdown returns a text whose first line is "# Title",
\* followed by exactly one blank line; exactly one blank line lies between
\* "text" and "- item1"; "- item2" is the line after "- item1"; the text ends
\* with exactly one newline; stats.headings_processed is 1.
C15_ScenarioOutput ==
    (Normalized /\ opt.inputs[1] = ScenarioInput) =>
        LET lines == LinesOf(opt.results[1].optimized_content)
            n == Len(lines)
        IN  /\ n >= 3
            /\ lines[1] = T_heading /\ lines[2] = <<>> /\ lines[3] # <<>>
            /\ \E i \in 1..(n - 3) :
                    /\ lines[i] = T_text
                    /\ lines[i + 1] = <<>>
                    /\ lines[i + 2] = T_item1
                    /\ lines[i + 3] = T_item2
            /\ lines[n] = <<>> /\ lines[n - 1] # <<>>
            /\ opt.results[1].stats.headings_processed = 1

\* the position at which the line of position i of text x begins
LineStart(x, i) ==
    CHOOSE s \in 1..i : (s = 1 \/ x[s - 1] = NL) /\ \A k \in s..(i - 1) : x[k] # NL

\* position i of x lies on a line that begins with "#"
OnHeadingLine(x, i) == x[LineStart(x, i)] = "#"

\* position i of x lies in the marker of a list item: "-", "*" or "+", or a
\* number and its ".", at the beginning of a line and before a space
InListMarker(x, i) ==
    LET s == LineStart(x, i)
    IN  \/ i = s /\ x[i] \in {"-", "*", "+"} /\ i < Len(x) /\ x[i + 1] \in {" ", "\t"}
        \/ \E d \in i..(Len(x) - 1) :
                /\ d > s
                /\ \A k \in s..(d - 1) : x[k] \in Digits
                /\ x[d] = "." /\ x[d + 1] \in {" ", "\t"}

\* position i of x holds a "|" of a line whose first character, after
\* spaces, is "|"
IsTablePipe(x, i) ==
    /\ x[i] = "|"
    /\ \E p \in LineStart(x, i)..i :
            x[p] = "|" /\ \A k \in LineStart(x, i)..(p - 1) : x[k] \in {" ", "\t"}

\* position i of x lies between the parentheses of a link "[text](target)"
InLinkTarget(x, i) ==
    \E b \in 1..i, o \in 1..(i - 1), c \in (i + 1)..Len(x) :
        /\ b + 2 < o
        /\ x[b] = "[" /\ x[o - 1] = "]" /\ x[o] = "(" /\ x[c] = ")"
        /\ \A k \in (b + 1)..(o - 2) : x[k] \notin {"]", NL}
        /\ \A k \in (o + 1)..(c - 1) : x[k] \notin {")", NL}

\* the positions of the non-whitespace characters of x that belong to a
\* heading line, a list marker, a table pipe or a link target
Protected(x) ==
    {i \in 1..Len(x) :
        /\ x[i] \notin Whitespace
        /\ \/ OnHeadingLine(x, i)
           \/ InListMarker(x, i)
           \/ IsTablePipe(x, i)
           \/ InLinkTarget(x, i)}

\* the characters of x at the positions P, in their order
TextAt(x, P) ==
    [k \in 1..Cardinality(P) |->
        x[CHOOSE i \in P : Cardinality({j \in P : j < i}) = k - 1]]

RECURSIVE EmbedsFrom(_, _, _, _)
\* the characters of a from position i on occur in b from position j on, in
\* the same order
EmbedsFrom(a, i, b, j) ==
    IF i > Len(a) THEN TRUE
    ELSE IF j > Len(b) THEN FALSE
    ELSE IF a[i] = b[j] THEN EmbedsFrom(a, i + 1, b, j + 1)
    ELSE EmbedsFrom(a, i, b, j + 1)

\* C16: every non-whitespace character of the input of optimize_markdown
\* that belongs to a heading line, a list marker, a table pipe or a link
\* target is present in the returned text, and these characters are in the
\* order they have in the input.
C16_ProtectedCharactersKept ==
    Normalized =>
        EmbedsFrom(TextAt(opt.inputs[1], Protected(opt.inputs[1])), 1,
                   opt.results[1].optimized_content, 1)

-----------------------------------------------------------------------------
(* metadata_analyzer.py: _calculate_optimization_ratio and                 *)
(* _calculate_content_richness, each called once on an argument            *)

MaxLength == 32
MaxCount == 2

\* markdown_stats dicts with, and without, original_length and
\* optimized_length
RatioStats ==
    {[original_length |-> original, optimized_length |-> optimized] :
        original \in 0..MaxLength, optimized \in 0..MaxLength}
    \cup {[original_length |-> original] : original \in 0..MaxLength}
    \cup {[optimized_length |-> optimized] : optimized \in 0..MaxLength}
    \cup {<<>>}

\* the numbers of words at and next to the three thresholds
WordCounts == {0, Words1, Words1 + 1, Words2, Words2 + 1, Words3, Words3 + 1}

ContentAnalyses ==
    [table_count : 0..MaxCount, heading_count : 0..MaxCount, list_count : 0..MaxCount,
     formula_count : 0..MaxCount, total_words : WordCounts]

\* self._calculate_optimization_ratio(markdown_stats)
CalculateOptimizationRatio(markdown_stats) ==
    /\ analyzer.called = ""
    /\ analyzer' = [called |-> "_calculate_optimization_ratio",
                    args |-> <<markdown_stats>>,
                    returned |-> <<calculate_optimization_ratio(markdown_stats)>>]
    /\ UNCHANGED <<run, files, s3, trace, measured, opt, scan>>

\* self._calculate_content_richness(content_analysis)
CalculateContentRichness(content_analysis) ==
    /\ analyzer.called = ""
    /\ analyzer' = [called |-> "_calculate_content_richness",
                    args |-> <<content_analysis>>,
                    returned |-> <<calculate_content_richness(content_analysis)>>]
    /\ UNCHANGED <<run, files, s3, trace, measured, opt, scan>>

NextMeta ==
    \/ \E markdown_stats \in RatioStats : CalculateOptimizationRatio(markdown_stats)
    \/ \E content_analysis \in ContentAnalyses : CalculateContentRichness(content_analysis)

SpecMeta == Init /\ [][NextMeta]_vars

RatioReturned == analyzer.called = "_calculate_optimization_ratio"

Abs(n) == IF n < 0 THEN 0 - n ELSE n

\* ratio, in 1/100, is num / den rounded to two decimals: no multiple of
\* 1/100 is nearer to num / den
RoundedTo2(ratio, num, den) == 2 * Abs(ratio * den - 100 * num) <= den

\* C17: _calculate_optimization_ratio returns (original_length -
\* optimized_length) / original_length * 100 rounded to two decimals when
\* original_length is more than 0, and 0.0 when original_length is 0 or
\* missing, whatever optimized_length is; a missing optimized_length counts
\* as 0.
C17_OptimizationRatio ==
    RatioReturned =>
        LET markdown_stats == analyzer.args[1]
            optimized == IF "optimized_length" \in DOMAIN markdown_stats
                         THEN markdown_stats.optimized_length ELSE 0
            ratio == analyzer.returned[1]
        IN  IF "original_length" \in DOMAIN markdown_stats
               /\ markdown_stats.original_length > 0
            THEN RoundedTo2(ratio, (markdown_stats.original_length - optimized) * 100,
                            markdown_stats.original_length)
            ELSE ratio = 0

\* an original length of 3 and an optimized length of 1: 66.67 per cent
C17_Witness ==
    /\ RatioReturned
    /\ analyzer.args[1] = [original_length |-> 3, optimized_length |-> 1]
    /\ analyzer.returned = <<6667>>

RichnessReturned == analyzer.called = "_calculate_content_richness"

\* the score of a content analysis: 2 for tables, 1 for headings, 1 for
\* lists, 2 for formulas, and 3, 2 or 1 for more than 10000, 5000 or 1000
\* words
RichnessScore(content_analysis) ==
    LET points(counter, n) == IF content_analysis[counter] > 0 THEN n ELSE 0
        words == content_analysis.total_words
    IN  points("table_count", 2) + points("heading_count", 1) + points("list_count", 1)
        + points("formula_count", 2)
        + (CASE words > 10000 -> 3
             [] words > 5000 /\ words <= 10000 -> 2
             [] words > 1000 /\ words <= 5000 -> 1
             [] OTHER -> 0)

\* C18: _calculate_content_richness returns "Very Low" for the score 0, "Low"
\* for 1 and 2, "Medium" for 3 and 4, "High" for 5 and 6 and "Very High" for
\* 7 to 9, the score being 2 for tables, 1 for headings, 1 for lists, 2 for
\* formulas, and 3, 2 or 1 for more than 10000, 5000 or 1000 words.
C18_ContentRichness ==
    RichnessReturned =>
        LET score == RichnessScore(analyzer.args[1])
        IN  /\ score \in 0..9
            /\ analyzer.returned[1] =
                    (CASE score = 0 -> "Very Low"
                       [] score \in 1..2 -> "Low"
                       [] score \in 3..4 -> "Medium"
                       [] score \in 5..6 -> "High"
                       [] score \in 7..9 -> "Very High")

\* tables and exactly 5000 words: the score is 2 + 1, the label "Medium"
C18_Witness ==
    /\ RichnessReturned
    /\ analyzer.args[1] = [table_count |-> 1, heading_count |-> 0, list_count |-> 0,
                           formula_count |-> 0, total_words |-> 5000]
    /\ analyzer.returned = <<"Medium">>


-----------------------------------------------------------------------------
(* Two invocations of lambda_handler side by side: every step of either is *)
(* one step, in any order                                                  *)

NextTwo == \E r \in Pair : Step(r)

SpecTwo == Init /\ [][NextTwo]_vars

\* run r has made its temporary file and has not returned
HoldsTempFile(r) == run[r].temp_files # <<>> /\ run[r].pc # "done"

\* C19: of two invocations running side by side, the two temporary files have
\* different paths while both invocations hold one, and a step of one
\* invocation leaves alone the locals of the other (its processing_times and
\* its response among them), the timings measured for the other and the
\* calls of the other, and leaves the temporary file of the other in place:
\* the clean-up of one never deletes the file of the other
C19_RunsShareNothing ==
    [][\A r \in Pair : \A q \in Pair \ {r} :
        /\ (run'[r].temp_files # <<>> /\ run'[r].pc # "done"
             /\ run'[q].temp_files # <<>> /\ run'[q].pc # "done")
                => run'[r].temp_pdf_path # run'[q].temp_pdf_path
        /\ run'[r] # run[r] =>
                /\ run'[q] = run[q]
                /\ measured'[q] = measured[q]
                /\ trace'[q] = trace[q]
                /\ HoldsTempFile(q) => run[q].temp_pdf_path \in files']_vars

\* one invocation has cleaned up its file and returned 200 while the other,
\* which measured other times, still holds its own file
C19_Witness ==
    /\ run["run-2"].pc = "done"
    /\ run["run-2"].response.statusCode = 200
    /\ \E k \in DOMAIN trace["run-2"] :
            /\ trace["run-2"][k].op = "cleanup_temp_file"
            /\ trace["run-2"][k].ok
    /\ run["run-3"].pc = "finally"
    /\ run["run-3"].response.statusCode = 200
    /\ run["run-3"].temp_pdf_path \in files
    /\ run["run-3"].temp_pdf_path # run["run-2"].temp_pdf_path
    /\ run["run-3"].processing_times # run["run-2"].processing_times


-----------------------------------------------------------------------------
(* The same event handled twice, the second invocation entered after the   *)
(* first has returned                                                      *)

\* the handler is entered again with the event of the invocation that returned
Rerun == run["run-2"].pc = "done" /\ Invoke("run-3", run["run-2"].event)

NextRerun == Step("run-2") \/ Rerun \/ Proceed("run-3")

SpecRerun == Init /\ [][NextRerun]_vars

\* what the successful upload_content calls of calls leave at bucket and key
\* (<<>>: they write nothing there)
RECURSIVE Stored(_, _, _)
Stored(calls, bucket, key) ==
    IF calls = <<>> THEN <<>>
    ELSE LET c == calls[Len(calls)]
         IN  IF c.op = "upload_content" /\ c.ok /\ c.arg[1] = bucket /\ c.arg[2] = key
             THEN <<c.arg[3], c.arg[4]>>
             ELSE Stored(SubSeq(calls, 1, Len(calls) - 1), bucket, key)

\* a metadata report without its processed timestamp and its timings
Untimed(metadata) ==
    [metadata EXCEPT !.document_info.processed_at = "",
                     !.document_info.total_processing_time = <<>>,
                     !.document_info.processing_breakdown = <<>>]

\* both invocations have returned 200, the second for the extraction result
\* of the first
RanTwice ==
    /\ Returned("run-2") /\ run["run-2"].response.statusCode = 200
    /\ Returned("run-3") /\ run["run-3"].response.statusCode = 200
    /\ run["run-3"].event = run["run-2"].event
    /\ run["run-3"].docling_result = run["run-2"].docling_result

\* C20: after the pipeline has run twice in sequence with the same event and
\* the same extraction result, the content output location holds Markdown,
\* the same as the first run left there, and the two metadata reports are
\* equal but for the processed timestamp and the measured timings
C20_RerunSameOutput ==
    RanTwice =>
        LET bucket == run["run-2"].event.output_bucket
            key == run["run-2"].event.output_key
        IN  /\ <<bucket, key>> \in DOMAIN s3
            /\ s3[<<bucket, key>>][1] = "text/markdown"
            /\ s3[<<bucket, key>>] = Stored(trace["run-2"], bucket, key)
            /\ Untimed(run["run-3"].metadata) = Untimed(run["run-2"].metadata)


-----------------------------------------------------------------------------
(* The metadata report, the order of the stages and the timings of a run   *)

CallsOf(r, op) == {k \in DOMAIN trace[r] : trace[r][k].op = op}

\* C21 as stated: every run that has returned, whether it succeeded or
\* failed at any stage, created exactly one metadata report.
C21_Original ==
    \A r \in Runs : Returned(r) => Cardinality(CallsOf(r, "generate_metadata")) = 1

\* C21, amended: a run creates at most one metadata report: exactly one once
\* extraction and normalization are behind it, whether it then succeeds or
\* fails in an upload, and none when it fails in validation, download or
\* extraction; the report is not changed after generate_metadata has
\* constructed it, and it is this report that is serialized to the metadata
\* location.
C21_ReportCreatedOnce ==
    [][\A r \in Runs :
        /\ Cardinality({k \in DOMAIN trace'[r] : trace'[r][k].op = "generate_metadata"}) =
                IF run'[r].pc \in {"upload_markdown", "upload_metadata", "success"}
                   \/ (run'[r].pc \in {"except", "finally", "done"}
                       /\ \E k \in DOMAIN trace'[r] : trace'[r][k].op = "upload_content")
                THEN 1 ELSE 0
        /\ CallsOf(r, "generate_metadata") # {} => run'[r].metadata = run[r].metadata
        /\ \A k \in DOMAIN trace'[r] :
                IsMetadataUpload(trace'[r][k]) =>
                    trace'[r][k].arg[4] = export_metadata_json(run'[r].metadata)]_vars

\* a run that failed in the upload of the metadata has returned 500 with its
\* one report, the one it tried to upload
C21_Witness ==
    \E r \in Runs :
        /\ Returned(r) /\ Status(r) = 500
        /\ Cardinality(CallsOf(r, "generate_metadata")) = 1
        /\ \E k \in DOMAIN trace[r] :
                /\ IsMetadataUpload(trace[r][k]) /\ ~trace[r][k].ok
                /\ trace[r][k].arg[4] = export_metadata_json(run[r].metadata)


\* the place of a call in the order of the stages
StageRank(c) ==
    IF c.op = "validate_event" THEN 1
    ELSE IF c.op = "create_temp_file" THEN 2
    ELSE IF c.op = "download_file" THEN 3
    ELSE IF c.op = "process_document" THEN 4
    ELSE IF c.op = "optimize_markdown" THEN 5
    ELSE IF c.op = "generate_metadata" THEN 6
    ELSE IF IsMarkdownUpload(c) THEN 7
    ELSE 8

\* C22: in every run the stage operations occur in the order validation,
\* temp-file creation, download, extraction, normalization, metadata
\* synthesis, Markdown upload, metadata upload: each is executed at most once
\* and none after a later one has started, so the places of the calls of a
\* run in that order go strictly up.
C22_StagesInOrder ==
    \A r \in Runs :
        LET calls == Calls(r)
        IN  \A k \in DOMAIN calls : \A l \in DOMAIN calls :
                k < l => StageRank(calls[k]) < StageRank(calls[l])

\* a run that has gone through all eight stages
C22_Witness ==
    \E r \in Runs :
        /\ Returned(r)
        /\ {StageRank(Calls(r)[k]) : k \in DOMAIN Calls(r)} = 1..8


\* the stage of run r that processing_times[stage] times has completed: the
\* download, the extraction and the two uploads without a failure, the
\* normalization with the text of the optimizer or, when the optimizer
\* reports a failure, with the text it was given
StageCompleted(r, stage) ==
    \E k \in DOMAIN trace[r] :
        LET c == trace[r][k]
        IN  \/ stage = "s3_download" /\ c.op = "download_file" /\ c.ok
            \/ stage = "docling_processing" /\ c.op = "process_document" /\ c.ok
            \/ stage = "markdown_optimization" /\ c.op = "optimize_markdown"
            \/ stage = "s3_upload" /\ IsMetadataUpload(c) /\ c.ok

\* C23: within one run each entry of processing_times is assigned at most
\* once after it was set to 0, when its own stage has completed without
\* failing, and is not changed afterwards; in the response the entry of a
\* stage that failed or was not reached is 0 and the entry of a completed
\* stage the time assigned.
C23_TimingsWrittenOnce ==
    [][\A r \in Runs : \A stage \in Stages :
        /\ Len(measured'[r][stage]) <= 1
        /\ measured'[r][stage] # measured[r][stage] =>
                ~StageCompleted(r, stage) /\ StageCompleted(r, stage)'
        /\ run'[r].processing_times[stage] =
                IF measured'[r][stage] = <<>> THEN 0 ELSE measured'[r][stage][1]
        /\ (run[r].pc # "idle" /\ measured[r][stage] # <<>>) =>
                run'[r].processing_times[stage] = run[r].processing_times[stage]
        /\ (run'[r].pc = "done" /\ run'[r].response.statusCode # 400) =>
                run'[r].response.body.performance_metrics[stage] =
                    IF StageCompleted(r, stage)' THEN measured'[r][stage][1] ELSE 0]_vars

\* a run that failed in the extraction has returned the time of the download
\* and 0 for the three stages after it
C23_Witness ==
    \E r \in Runs :
        /\ Returned(r) /\ Status(r) = 500
        /\ \E k \in DOMAIN trace[r] : trace[r][k].op = "process_document" /\ ~trace[r][k].ok
        /\ run[r].response.body.performance_metrics =
                [ZeroTimes EXCEPT !.s3_download = MaxElapsed]


-----------------------------------------------------------------------------
(* The rules a new optimizer lists, and the text it returns                *)

RuleOrder ==
    <<"whitespace_cleanup", "heading_optimization", "table_optimization",
      "list_optimization", "link_optimization", "empty_section_removal",
      "line_ending_normalization">>

Blank == {" ", "\t"}

\* line is 1 to 6 '#', white space and a text
IsHeadingLine(line) ==
    \E h \in 1..6 :
        /\ Len(line) > h + 1
        /\ \A k \in 1..h : line[k] = "#"
        /\ line[h + 1] \in Blank

\* line is a bullet or a number with a full stop, white space and a text
IsListItemLine(line) ==
    \/ Len(line) > 2 /\ line[1] \in {"-", "*", "+"} /\ line[2] \in Blank
    \/ \E d \in 1..(Len(line) - 3) :
            /\ \A k \in 1..d : line[k] \in Digits
            /\ line[d + 1] = "." /\ line[d + 2] \in Blank

\* line holds two pipes with something between them
HasTableRow(line) ==
    \E i \in DOMAIN line : \E j \in (i + 2)..Len(line) : line[i] = "|" /\ line[j] = "|"

\* text holds "[", a link text, "](", a target and ")"
HasLink(text) ==
    \E i \in DOMAIN text : \E j \in (i + 2)..Len(text) : \E k \in (j + 3)..Len(text) :
        /\ text[i] = "[" /\ text[j] = "]" /\ text[j + 1] = "(" /\ text[k] = ")"
        /\ \A l \in (i + 1)..(j - 1) : text[l] # "]"
        /\ \A l \in (j + 2)..(k - 1) : text[l] # ")"

\* what rule k looks for is in text
HoldsConstruct(k, text) ==
    CASE k = 2 -> \E l \in DOMAIN LinesOf(text) : IsHeadingLine(LinesOf(text)[l])
      [] k = 3 -> \E l \in DOMAIN LinesOf(text) : HasTableRow(LinesOf(text)[l])
      [] k = 4 -> \E l \in DOMAIN LinesOf(text) : IsListItemLine(LinesOf(text)[l])
      [] k = 5 -> HasLink(text)
      [] OTHER -> TRUE

\* C24: a pass of optimize_markdown on a new optimizer appends to
\* optimizations_applied nothing but its own rule, so that the list follows
\* the order of the seven rules; the passes of whitespace_cleanup,
\* empty_section_removal and line_ending_normalization always append theirs,
\* and the passes of heading_optimization, table_optimization,
\* list_optimization and link_optimization append theirs exactly when the
\* text holds a heading, a table, a list item or a link at the time of the
\* pass, which is to say in the text the pass is given or in the text it
\* leaves.
C24_RulesAppliedWhenPresent ==
    [][(opt.pc = "passes" /\ opt'.pc = "passes" /\ opt'.next = opt.next + 1) =>
        LET applied == opt.self_stats.optimizations_applied
        IN  IF HoldsConstruct(opt.next, opt.content) \/ HoldsConstruct(opt.next, opt'.content)
            THEN opt'.self_stats.optimizations_applied = Append(applied, RuleOrder[opt.next])
            ELSE opt'.self_stats.optimizations_applied = applied]_vars


\* the lines of a returned text, the newline that ends it aside
OutputLines(text) == LinesOf(RStrip(text, {NL}))

\* line l of lines has exactly one blank line before it unless it is the
\* first line, and exactly one after it unless it is the last
SingleBlankAround(lines, l) ==
    /\ l > 1 => lines[l - 1] = <<>> /\ (l > 2 => lines[l - 2] # <<>>)
    /\ l < Len(lines) => lines[l + 1] = <<>> /\ (l + 1 < Len(lines) => lines[l + 2] # <<>>)

\* C25: in the text a successful optimize_markdown returns, every heading
\* line has exactly one blank line before it unless it is the first line and
\* exactly one blank line after it unless it is the last line, whatever the
\* input.
C25_OneBlankLineAroundHeadings ==
    \A k \in DOMAIN opt.results :
        opt.results[k].success =>
            LET lines == OutputLines(opt.results[k].optimized_content)
            IN  \A l \in DOMAIN lines : IsHeadingLine(lines[l]) => SingleBlankAround(lines, l)


\* the link constructs of text: where the "[", the "]" and the ")" are
LinkConstructs(text) ==
    {<<i, j, k>> \in (DOMAIN text) \X (DOMAIN text) \X (DOMAIN text) :
        /\ i + 1 < j /\ j + 2 < k
        /\ text[i] = "[" /\ text[j] = "]" /\ text[j + 1] = "(" /\ text[k] = ")"
        /\ \A l \in (i + 1)..(j - 1) : text[l] # "]"
        /\ \A l \in (j + 2)..(k - 1) : text[l] # ")"}

\* text without its white space
Unspaced(text) == SelectSeq(text, LAMBDA ch : ch \notin Whitespace)

\* C26: _optimize_links leaves no link construct with white space just
\* inside its brackets or its parentheses, on either side, and changes
\* nothing else of the text: "[text]( url )" becomes "[text](url)".
C26_LinksTrimmed ==
    [][(opt.pc = "passes" /\ opt.next = 5 /\ opt'.next = 6) =>
        /\ \A link \in LinkConstructs(opt'.content) :
                /\ opt'.content[link[1] + 1] \notin Whitespace
                /\ opt'.content[link[2] - 1] \notin Whitespace
                /\ opt'.content[link[2] + 2] \notin Whitespace
                /\ opt'.content[link[3] - 1] \notin Whitespace
        /\ Unspaced(opt'.content) = Unspaced(opt.content)]_vars


\* C27: the text a successful optimize_markdown returns, for any input and
\* for the empty string, holds no carriage return and ends with exactly one
\* newline; the optimized_length of the stats returned is the length of that
\* text and the original_length the length of the input.
C27_LineEndingsAndLengths ==
    \A k \in DOMAIN opt.results :
        opt.results[k].success =>
            LET text == opt.results[k].optimized_content
            IN  /\ \A i \in DOMAIN text : text[i] # CR
                /\ text # <<>> /\ text[Len(text)] = NL
                /\ Len(text) > 1 => text[Len(text) - 1] # NL
                /\ opt.results[k].stats.optimized_length = Len(text)
                /\ opt.results[k].stats.original_length = Len(opt.inputs[k])

\* the text with a "\r" inside a line has come back with a newline for it,
\* and the empty string would come back as one newline
C27_Witness ==
    /\ Normalized
    /\ opt.inputs[1] = <<"a", CR, "b", NL>>
    /\ opt.results[1].optimized_content = <<"a", NL, "b", NL>>
    /\ opt.results[1].stats.original_length = 4
    /\ optimize_markdown(InitStats, <<>>, 0).optimized_content = <<NL>>


\* the metadata report run r uploaded
PublishedReport(r) ==
    LET k == CHOOSE k \in DOMAIN trace[r] : IsMetadataUpload(trace[r][k])
    IN  trace[r][k].arg[4][2]

\* C28: in every successful run the report written to the metadata location
\* was made before the uploads: it records 0 for s3_upload and, as the total,
\* the sum of the times of download, extraction and normalization, while the
\* performance_metrics of the 200 response carry the measured time of the
\* upload; the two agree on the upload only when it took no time that shows
\* in two decimals.
C28_ReportOmitsUploadTime ==
    \A r \in Runs :
        (Returned(r) /\ Status(r) = 200) =>
            LET document_info == PublishedReport(r).document_info
                performance_metrics == run[r].response.body.performance_metrics
            IN  /\ document_info.processing_breakdown.s3_upload = Fmt2(0)
                /\ document_info.total_processing_time =
                        Fmt2(measured[r].s3_download[1] + measured[r].docling_processing[1]
                             + measured[r].markdown_optimization[1])
                /\ \A stage \in Stages \ {"s3_upload"} :
                        document_info.processing_breakdown[stage] =
                            Fmt2(performance_metrics[stage])
                /\ performance_metrics.s3_upload = measured[r].s3_upload[1]
                /\ (Fmt2(performance_metrics.s3_upload) =
                        document_info.processing_breakdown.s3_upload)
                        <=> Fmt2(performance_metrics.s3_upload) = Fmt2(0)

\* a successful run whose upload took time: the response carries it, the
\* report has 0, and the total of the response is above the total of the
\* report
C28_Witness ==
    \E r \in Runs :
        /\ Returned(r) /\ Status(r) = 200
        /\ run[r].response.body.performance_metrics.s3_upload = MaxElapsed
        /\ PublishedReport(r).document_info.processing_breakdown.s3_upload = 0
        /\ PublishedReport(r).document_info.total_processing_time > 0
        /\ run[r].response.body.processing_summary.total_time >
                PublishedReport(r).document_info.total_processing_time


\* C29: when the event has no metadata_key, the metadata location derived
\* from the output key differs from the content location for every output
\* key validate_event accepts, and the upload of the metadata leaves the
\* Markdown object in place.
C29_MetadataKeyDiffers ==
    \A r \in Runs :
        (run[r].s3_handler /\ "metadata_key" \notin DOMAIN run[r].event) =>
            /\ run[r].metadata_key # run[r].event.output_key
            /\ (\E k \in DOMAIN trace[r] : IsMarkdownUpload(trace[r][k]) /\ trace[r][k].ok) =>
                    s3[<<run[r].event.output_bucket, run[r].event.output_key>>] =
                        <<"text/markdown", run[r].optimized_content>>


\* the stats of a returned dict as a reader finds them after the step
ReadStatsNext(stats) ==
    [stats EXCEPT !.optimizations_applied = opt'.self_stats.optimizations_applied]

\* C30: the stats record a call of optimize_markdown returned stays as it was
\* returned through the later calls on the same optimizer, its list
\* optimizations_applied and its counters, and the record a later successful
\* call returns holds the rules and the counts of that call alone, which are
\* those a new optimizer returns for the same text.
C30_StatsOfOneCall ==
    [][/\ \A k \in DOMAIN opt.results :
            /\ opt'.results[k] = opt.results[k]
            /\ ReadStatsNext(opt.results[k].stats) = ReadStats(opt.results[k].stats)
       /\ (Len(opt'.results) > Len(opt.results) /\ opt'.raised[Len(opt'.raised)] = 0) =>
            ReadStatsNext(opt'.results[Len(opt'.results)].stats) =
                optimize_markdown(InitStats, opt.input, 0).stats]_vars

====
